---- MODULE Spec2Model ----
(***************************************************************************)
(* go_sync: directory synchronisation over SFTP / FTP.                     *)
(*                                                                         *)
(* The module models the sync engine of src/sftp/sftp.go (SFTP) and of the *)
(* goftp based FTP variant (src/unnamed/part_010, second file) together    *)
(* with the worker pool of src/worker/worker.go:                           *)
(*   - SpecSync : initialSync -> syncDir, the recursive reconciliation;    *)
(*   - Spec     : WatchDirectory in a LocalToRemote session (fsnotify      *)
(*                events -> forwarding goroutine -> Tasks -> Worker);      *)
(*   - SpecPoll : WatchDirectory in a RemoteToLocal session (the poll-diff *)
(*                loop of AddDirectoriesToWatcher -> Tasks -> Worker).     *)
(* A path is the sequence of its components; a file tree is a function     *)
(* from the paths that exist to their entries.                             *)
(***************************************************************************)
EXTENDS Integers, Sequences, FiniteSets, TLC

VARIABLES
    variant,     \* "sftp" (src/sftp/sftp.go) or "ftp" (part_010)
    Direction,   \* SFTP.Direction / FTP.Direction
    localFS,     \* the local file tree
    remoteFS,    \* the remote file tree
    fs0,         \* history: both trees as they were at construction
    mainpc,      \* position of the goroutine running WatchDirectory
    runs,        \* history: number of initialSync calls that have returned
    syncErr,     \* error returned by each initialSync call so far
    xfers,       \* history: transfers performed by each initialSync call
    Tasks,       \* Pool.Tasks, the buffered channel
    wg,          \* Pool.WG, the WaitGroup counter
    workers,     \* one record per goroutine running Worker
    mu,          \* SFTP.mu: 0 when free, else the worker holding it
    events,      \* watcher.Events, events fsnotify has queued
    watchSet,    \* directories registered with watcher.Add
    fwd,         \* the event forwarding goroutine of WatchDirectory
    poll,        \* the poll-diff loop of AddDirectoriesToWatcher
    cancelled,   \* ctx.Done() is closed
    waiter,      \* a goroutine calling Pool.WG.Wait()
    hist         \* history of the environment and of the pipeline

vars == <<variant, Direction, localFS, remoteFS, fs0, mainpc, runs, syncErr,
          xfers, Tasks, wg, workers, mu, events, watchSet, fwd, poll,
          cancelled, waiter, hist>>

----------------------------------------------------------------------------
(* Bounds *)

MaxTime == 1        \* modification times are 0..MaxTime
MaxChanges == 3     \* changes the user makes to the authoritative tree
MaxPolls == 3       \* iterations of the poll-diff loop that are followed

----------------------------------------------------------------------------
(* Configuration: ExtraConfig.LocalDir / RemoteDir as in TestWatchDirectory *)

LocalDir == <<"tmp">>
RemoteDir == <<"upload">>

LocalToRemote == "LocalToRemote"
RemoteToLocal == "RemoteToLocal"

Contents == {"X", "Z"}
Partial == "partial"     \* what a created but not fully copied file holds

File(c, t) == [kind |-> "file", content |-> c, mtime |-> t]
DirEntry == [kind |-> "dir", content |-> "", mtime |-> 0]

\* names in the order os.ReadDir returns them (sorted by file name)
NameSeq == <<"a", "s", "v.swp">>
Names == {NameSeq[i] : i \in 1..Len(NameSeq)}
SwpNames == {"v.swp"}

----------------------------------------------------------------------------
(* Paths: path/filepath *)

\* one more component x after the cleaned path h
CleanStep(h, x) ==
    IF x = "." THEN h
    ELSE IF x = ".." /\ h # <<>> /\ h[Len(h)] # ".."
         THEN SubSeq(h, 1, Len(h) - 1)
    ELSE Append(h, x)

\* filepath.Clean on a path given by its components (the cleaned prefix is
\* bound as a set element, so that it is computed once)
RECURSIVE Clean(_)
Clean(p) ==
    IF p = <<>> THEN <<>>
    ELSE CHOOSE r \in {CleanStep(h, p[Len(p)]) :
                          h \in {Clean(SubSeq(p, 1, Len(p) - 1))}} : TRUE

Join(a, b) == Clean(a \o b)

RECURSIVE CommonPrefix(_, _)
CommonPrefix(a, b) ==
    IF a = <<>> \/ b = <<>> \/ a[1] # b[1] THEN 0
    ELSE 1 + CommonPrefix(Tail(a), Tail(b))

\* filepath.Rel once base and targ are clean and share k components
RelFrom(b, t, k) ==
    [i \in 1..(Len(b) - k) |-> ".."] \o SubSeq(t, k + 1, Len(t))

Rel(base, targ) ==
    CHOOSE r \in {RelFrom(b, t, CommonPrefix(b, t)) :
                     b \in {Clean(base)}, t \in {Clean(targ)}} : TRUE

Parent(p) == SubSeq(p, 1, Len(p) - 1)

\* a translation that keeps only the file name
toRemotePath_base(filePath) ==
    Join(RemoteDir, IF filePath = <<>> THEN <<>>
                    ELSE <<filePath[Len(filePath)]>>)

\* the remote counterpart of a local path, as uploadFile and RemoveRemoteFile
\* of src/sftp/sftp.go compute it
toRemotePath(filePath) == Join(RemoteDir, Rel(LocalDir, filePath))

ContainsSwp(p) == \E i \in 1..Len(p) : p[i] \in SwpNames

----------------------------------------------------------------------------
(* File trees: the os package and the remote client *)

Exists(fs, p) == p = <<>> \/ p \in DOMAIN fs
IsDir(fs, p) == p = <<>> \/ (p \in DOMAIN fs /\ fs[p].kind = "dir")
IsFile(fs, p) == p \in DOMAIN fs /\ fs[p].kind = "file"

Put(fs, p, e) == [q \in DOMAIN fs \cup {p} |-> IF q = p THEN e ELSE fs[q]]
Del(fs, p) == [q \in DOMAIN fs \ {p} |-> fs[q]]

\* os.Create / Client.Create / Store can create or truncate p
CanCreate(fs, p) == p # <<>> /\ IsDir(fs, Parent(p)) /\ ~IsDir(fs, p)

\* os.Remove / Client.Remove / Delete succeeds on p
CanRemove(fs, p) ==
    /\ p \in DOMAIN fs
    /\ \A q \in DOMAIN fs : q # p => Parent(q) # p

\* os.ReadDir: the names in d, in the order ord
Listing(fs, d, ord) == SelectSeq(ord, LAMBDA n : Append(d, n) \in DOMAIN fs)

\* os.MkdirAll / Client.MkdirAll: ok is FALSE when a prefix is a file
RECURSIVE MkdirAll(_, _)
MkdirAll(fs, p) ==
    IF p = <<>> THEN [fs |-> fs, ok |-> TRUE]
    ELSE LET up == MkdirAll(fs, Parent(p))
         IN  IF ~up.ok THEN up
             ELSE IF p \in DOMAIN up.fs
                  THEN [fs |-> up.fs, ok |-> up.fs[p].kind = "dir"]
             ELSE [fs |-> Put(up.fs, p, DirEntry), ok |-> TRUE]

----------------------------------------------------------------------------
(* The state a reconciliation pass works on: both trees, the error it has   *)
(* returned (err) and the number of file transfers it has performed (n).    *)
(* io is what the environment decides: bad, the source files whose copy     *)
(* fails; ord, the order the remote ReadDir lists names in; lf, whether the *)
(* FTP server lists a plain file without error; ctx, whether ctx.Err() is   *)
(* non-nil.                                                                 *)

SyncState(l, r) == [l |-> l, r |-> r, err |-> FALSE, n |-> 0]

Fail(st) == [st EXCEPT !.err = TRUE]

\* os.Stat: "ok", "notexist" (ENOENT) or "notdir" (ENOTDIR)
Stat(fs, p) ==
    IF Exists(fs, p) THEN "ok"
    ELSE IF \E i \in 1..(Len(p) - 1) : IsFile(fs, SubSeq(p, 1, i))
         THEN "notdir"
    ELSE "notexist"

\* what io.Copy writes: the content of the source, or a partial file when
\* the copy fails (the source is a directory or the transfer breaks)
Copied(fs, src, io) ==
    IF IsFile(fs, src) /\ src \notin io.bad
    THEN [ok |-> TRUE, e |-> File(fs[src].content, MaxTime)]
    ELSE [ok |-> FALSE, e |-> File(Partial, MaxTime)]

(* ---- SFTP: src/sftp/sftp.go ---- *)

sftpUploadFile(st, io, filePath) ==
    LET relativePath == Rel(LocalDir, filePath)
        dst == Join(RemoteDir, relativePath)
        c == Copied(st.l, filePath, io)
    IN  IF ~Exists(st.l, filePath) THEN Fail(st)                \* os.Open
        ELSE IF ~CanCreate(st.r, dst) THEN Fail(st)             \* Client.Create
        ELSE IF io.ctx
             THEN [st EXCEPT !.r = Put(st.r, dst, File(Partial, MaxTime)),
                             !.err = TRUE]                      \* ctx.Err()
        ELSE [st EXCEPT !.r = Put(st.r, dst, c.e),              \* io.Copy
                        !.err = ~c.ok,
                        !.n = st.n + 1]

sftpDownloadFile(st, io, remotePath) ==
    LET relativePath == Rel(RemoteDir, remotePath)
        dst == Join(LocalDir, relativePath)
        c == Copied(st.r, remotePath, io)
    IN  IF ContainsSwp(remotePath) THEN st
        ELSE IF ~Exists(st.r, remotePath) THEN Fail(st)         \* Client.Open
        ELSE IF ~CanCreate(st.l, dst) THEN Fail(st)             \* os.Create
        ELSE IF io.ctx
             THEN [st EXCEPT !.l = Put(st.l, dst, File(Partial, MaxTime)),
                             !.err = TRUE]
        ELSE [st EXCEPT !.l = Put(st.l, dst, c.e),
                        !.err = ~c.ok,
                        !.n = st.n + 1]

\* a checkOrCreateDir that drops the error of MkdirAll
sftpCheckOrCreateDir_quiet(st, dir, dirPath) ==
    IF Stat(st.l, dirPath) # "notexist" THEN st
    ELSE IF dir = LocalToRemote
         THEN LET m == MkdirAll(st.r, dirPath)
              IN  IF m.ok THEN [st EXCEPT !.r = m.fs] ELSE st
    ELSE LET m == MkdirAll(st.l, dirPath)
         IN  IF m.ok THEN [st EXCEPT !.l = m.fs] ELSE st

sftpCheckOrCreateDir(st, dir, dirPath) ==
    IF Stat(st.l, dirPath) # "notexist" THEN st   \* os.Stat on the LOCAL tree
    ELSE IF dir = LocalToRemote
         THEN LET m == MkdirAll(st.r, dirPath)
              IN  IF m.ok THEN [st EXCEPT !.r = m.fs] ELSE Fail(st)
    ELSE LET m == MkdirAll(st.l, dirPath)
         IN  IF m.ok THEN [st EXCEPT !.l = m.fs] ELSE Fail(st)

\* the existence check of syncDir: the error of Client.Stat / os.Stat
sftpMissing_never(fs, p) == FALSE
sftpMissing_always(fs, p) == TRUE
sftpMissing(fs, p) == ~Exists(fs, p)

RECURSIVE sftpSyncDir(_, _, _, _, _)
RECURSIVE sftpSyncEntries(_, _, _, _, _, _)
sftpSyncEntries(st, io, dir, localDir, remoteDir, names) ==
    IF names = <<>> \/ st.err THEN st
    ELSE
      LET localFilePath == Join(localDir, <<Head(names)>>)
          remoteFilePath == Join(remoteDir, <<Head(names)>>)
          st1 ==
            IF dir = LocalToRemote
            THEN IF IsDir(st.l, localFilePath)
                 THEN LET c == sftpCheckOrCreateDir(st, dir, remoteFilePath)
                      IN  IF c.err THEN c
                          ELSE sftpSyncDir(c, io, dir, localFilePath,
                                           remoteFilePath)
                 ELSE IF sftpMissing(st.r, remoteFilePath)
                      THEN sftpUploadFile(st, io, localFilePath)
                 ELSE st
            ELSE IF IsDir(st.r, remoteFilePath)
                 THEN LET c == sftpCheckOrCreateDir(st, dir, localFilePath)
                      IN  IF c.err THEN c
                          ELSE sftpSyncDir(c, io, dir, localFilePath,
                                           remoteFilePath)
                 ELSE IF sftpMissing(st.l, localFilePath)
                      THEN sftpDownloadFile(st, io, remoteFilePath)
                 ELSE st
      IN  sftpSyncEntries(st1, io, dir, localDir, remoteDir, Tail(names))

sftpSyncDir(st, io, dir, localDir, remoteDir) ==
    IF dir = LocalToRemote
    THEN IF ~IsDir(st.l, localDir) THEN Fail(st)            \* os.ReadDir
         ELSE sftpSyncEntries(st, io, dir, localDir, remoteDir,
                              Listing(st.l, localDir, NameSeq))
    ELSE IF ~IsDir(st.r, remoteDir) THEN Fail(st)           \* Client.ReadDir
         ELSE sftpSyncEntries(st, io, dir, localDir, remoteDir,
                              Listing(st.r, remoteDir, io.ord))

(* ---- FTP: src/unnamed/part_010 (goftp client) ---- *)

\* the prefixes "/a", "/a/b", ... that checkOrCreateDir walks through
Prefixes(p) == [i \in 1..Len(p) |-> SubSeq(p, 1, i)]

RECURSIVE ftpCheckOrCreateDirParts(_, _, _, _)
ftpCheckOrCreateDirParts(st, io, dir, parts) ==
    IF parts = <<>> \/ st.err THEN st
    ELSE
      LET currentPath == Head(parts)
          st1 ==
            IF dir = LocalToRemote
            THEN IF ~Exists(st.r, currentPath) /\ IsDir(st.r, Parent(currentPath))
                 THEN [st EXCEPT !.r = Put(st.r, currentPath, DirEntry)] \* Mkdir
                 ELSE IF IsDir(st.r, currentPath)
                         \/ (IsFile(st.r, currentPath) /\ io.lf)
                      THEN st                                            \* ReadDir
                 ELSE Fail(st)
            ELSE LET m == MkdirAll(st.l, currentPath)
                 IN  IF m.ok THEN [st EXCEPT !.l = m.fs] ELSE Fail(st)
      IN  ftpCheckOrCreateDirParts(st1, io, dir, Tail(parts))

ftpCheckOrCreateDir(st, io, dir, dirPath) ==
    ftpCheckOrCreateDirParts(st, io, dir, Prefixes(dirPath))

\* client.Store(remoteFilePath, localFile)
ftpStore(st, io, localFilePath, remoteFilePath) ==
    LET c == Copied(st.l, localFilePath, io)
    IN  IF ~CanCreate(st.r, remoteFilePath) THEN Fail(st)
        ELSE [st EXCEPT !.r = Put(st.r, remoteFilePath, c.e),
                        !.err = ~c.ok,
                        !.n = st.n + 1]

\* client.Retrieve(remoteFilePath, localFile), localFile just created
ftpRetrieve(st, io, remoteFilePath, localFilePath) ==
    LET c == Copied(st.r, remoteFilePath, io)
    IN  [st EXCEPT !.l = Put(st.l, localFilePath, c.e),
                   !.err = ~c.ok,
                   !.n = st.n + 1]

\* the existence checks of syncDir: client.Stat returned an error;
\* os.IsNotExist(err) of os.Stat
ftpRemoteMissing_always(fs, p) == TRUE
ftpRemoteMissing(fs, p) == ~Exists(fs, p)
ftpLocalMissing(fs, p) == Stat(fs, p) = "notexist"

RECURSIVE ftpSyncDir(_, _, _, _, _)
RECURSIVE ftpSyncEntries(_, _, _, _, _, _)
ftpSyncEntries(st, io, dir, localDir, remoteDir, names) ==
    IF names = <<>> \/ st.err THEN st
    ELSE
      LET localFilePath == Join(localDir, <<Head(names)>>)
          remoteFilePath == Join(remoteDir, <<Head(names)>>)
          st1 ==
            IF dir = LocalToRemote
            THEN IF IsDir(st.l, localFilePath)
                 THEN LET c == ftpCheckOrCreateDir(st, io, dir, remoteFilePath)
                      IN  IF c.err THEN c
                          ELSE ftpSyncDir(c, io, dir, localFilePath,
                                          remoteFilePath)
                 ELSE IF ftpRemoteMissing(st.r, remoteFilePath)
                      THEN ftpStore(st, io, localFilePath, remoteFilePath)
                 ELSE st
            ELSE IF IsDir(st.r, remoteFilePath)
                 THEN LET c == ftpCheckOrCreateDir(st, io, dir, localFilePath)
                      IN  IF c.err THEN c
                          ELSE ftpSyncDir(c, io, dir, localFilePath,
                                          remoteFilePath)
                 ELSE IF ftpLocalMissing(st.l, localFilePath)
                      THEN IF ~CanCreate(st.l, localFilePath)
                           THEN Fail(st)                        \* os.Create
                           ELSE ftpRetrieve(st, io, remoteFilePath,
                                            localFilePath)
                 ELSE st
      IN  ftpSyncEntries(st1, io, dir, localDir, remoteDir, Tail(names))

ftpSyncDir(st, io, dir, localDir, remoteDir) ==
    IF dir = LocalToRemote
    THEN IF ~IsDir(st.l, localDir) THEN Fail(st)
         ELSE ftpSyncEntries(st, io, dir, localDir, remoteDir,
                             Listing(st.l, localDir, NameSeq))
    ELSE IF ~IsDir(st.r, remoteDir) THEN Fail(st)
         ELSE ftpSyncEntries(st, io, dir, localDir, remoteDir,
                             Listing(st.r, remoteDir, io.ord))

\* initialSync of either variant
initialSync(v, st, io, dir) ==
    IF v = "sftp" THEN sftpSyncDir(st, io, dir, LocalDir, RemoteDir)
    ELSE ftpSyncDir(st, io, dir, LocalDir, RemoteDir)

----------------------------------------------------------------------------
(* The trees a session can start from *)

MaxRuns == 2        \* initialSync calls that are followed

\* the function whose graph is the set S of <<path, entry>> pairs
Tree(S) == [p \in {x[1] : x \in S} |-> (CHOOSE x \in S : x[1] = p)[2]]

FileOpts(p, cs, ts) == {{}} \cup {{<<p, File(c, t)>>} : c \in cs, t \in ts}

SubOpts(d) ==
    {{}, {<<d, File("X", 0)>>}, {<<d, DirEntry>>}}
    \cup {{<<d, DirEntry>>, <<Append(d, "a"), File(c, 0)>>} : c \in Contents}

\* the trees under root: a, s and s/a, and v.swp when swp is given
TreesUnder(root, ts, swp) ==
    {Tree({<<root, DirEntry>>} \cup A \cup V \cup S) :
        A \in FileOpts(Append(root, "a"), Contents, ts),
        V \in FileOpts(Append(root, "v.swp"), swp, {0}),
        S \in SubOpts(Append(root, "s"))}

EmptyTree == Tree({})

\* the remote directory's path also existing on the local machine
Shadow == Tree({<<RemoteDir, DirEntry>>, <<Append(RemoteDir, "s"), DirEntry>>})

Overlay(f, g) == [p \in DOMAIN f \cup DOMAIN g |->
                     IF p \in DOMAIN g THEN g[p] ELSE f[p]]

Orders == {o \in [1..Len(NameSeq) -> Names] :
              \A i, j \in 1..Len(NameSeq) : i # j => o[i] # o[j]}

----------------------------------------------------------------------------
(* The pool, the goroutines and the history, before WatchDirectory runs *)

PoolCap == 2        \* cap(Pool.Tasks), the number of Worker goroutines
Workers == 1..PoolCap

NoTask == [EventType |-> "none", Name |-> <<>>]
Task(op, name) == [EventType |-> op, Name |-> name]

\* the paths the user changes while the session runs
LivePaths == {Append(LocalDir, "a"), Append(RemoteDir, "a")}

\* a Go map variable: nil until a map is assigned to it
NilMap == [nil |-> TRUE, files |-> EmptyTree]
MapOf(files) == [nil |-> FALSE, files |-> files]

IdleWorker == [pc |-> "off", task |-> NoTask, src |-> "none"]
IdleFwd == [pc |-> "off", task |-> NoTask]
IdlePoll == [pc |-> "off", prevFiles |-> NilMap, newFiles |-> EmptyTree,
             pendW |-> {}, pendR |-> {}, task |-> NoTask]
IdleWaiter == [pc |-> "off", add |-> TRUE]
NoHist == [changes |-> 0, stopped |-> FALSE,
           life |-> [p \in LivePaths |-> "none"], xferFailed |-> FALSE,
           submitted |-> 0, handled |-> 0,
           emitted |-> <<>>, s1 |-> NilMap, s2 |-> EmptyTree,
           iter |-> 0, afterCancel |-> 0, lateEmit |-> FALSE,
           panicked |-> FALSE,
           xfer |-> [tries |-> 0, err |-> FALSE, allFail |-> FALSE],
           path |-> <<>>,
           fwdIn |-> <<>>, fwdOut |-> <<>>,
           conn |-> [api |-> "none"],
           stop |-> [up |-> <<>>, closer |-> "off", closed |-> FALSE],
           ssh |-> [pc |-> "off", interval |-> 0, passes |-> 0, late |-> 0,
                    closer |-> "off", closed |-> FALSE],
           tp |-> [outer |-> FALSE, max |-> 0, pc |-> "off", queue |-> <<>>,
                   err |-> FALSE, tasks |-> 0,
                   xfer |-> [called |-> FALSE, err |-> FALSE, ok |-> FALSE,
                             tries |-> 0]],
           flat |-> [pend |-> <<>>, run |-> <<>>, sent |-> {}]]

PipelineInit ==
    /\ Tasks = <<>>
    /\ wg = 0
    /\ workers = [w \in Workers |-> IdleWorker]
    /\ mu = 0
    /\ events = <<>>
    /\ watchSet = {}
    /\ fwd = IdleFwd
    /\ poll = IdlePoll
    /\ cancelled = FALSE
    /\ waiter = IdleWaiter
    /\ hist = NoHist

pipelineVars == <<Tasks, wg, workers, mu, events, watchSet, fwd, poll,
                  cancelled, waiter, hist>>
configVars == <<variant, Direction, fs0>>
syncVars == <<runs, syncErr, xfers>>

----------------------------------------------------------------------------
(* SpecSync: initialSync called on every pair of trees, up to MaxRuns times *)

InitSync ==
    /\ variant \in {"sftp", "ftp"}
    /\ Direction \in {LocalToRemote, RemoteToLocal}
    /\ \E src \in TreesUnder(IF Direction = LocalToRemote
                             THEN LocalDir ELSE RemoteDir, 0..MaxTime,
                             {"X"}),
          tgt \in TreesUnder(IF Direction = LocalToRemote
                             THEN RemoteDir ELSE LocalDir, {0}, {})
                     \cup {EmptyTree},
          sh \in {EmptyTree, Shadow} :
        /\ sh = Shadow => Direction = LocalToRemote /\ variant = "sftp"
        /\ localFS = IF Direction = LocalToRemote THEN Overlay(sh, src) ELSE tgt
        /\ remoteFS = IF Direction = LocalToRemote THEN tgt ELSE src
    /\ fs0 = [l |-> localFS, r |-> remoteFS]
    /\ mainpc = "sync"
    /\ runs = 0
    /\ syncErr = <<>>
    /\ xfers = <<>>
    /\ PipelineInit

\* what the environment decides during one pass
SyncIO(fs, dir) ==
    {[bad |-> b, ord |-> o, lf |-> f, ctx |-> cancelled] :
        b \in {{}} \cup {{p} : p \in {q \in DOMAIN fs : fs[q].kind = "file"}},
        o \in IF dir = RemoteToLocal THEN Orders ELSE {NameSeq},
        f \in IF variant = "ftp" /\ dir = LocalToRemote
              THEN BOOLEAN ELSE {FALSE}}

\* s.initialSync() / f.initialSync(), from its call to its return
InitialSync ==
    /\ mainpc = "sync"
    /\ runs < MaxRuns
    /\ \E io \in SyncIO(IF Direction = LocalToRemote THEN localFS ELSE remoteFS,
                        Direction) :
         LET st == initialSync(variant, SyncState(localFS, remoteFS), io,
                               Direction)
         IN  /\ localFS' = st.l
             /\ remoteFS' = st.r
             /\ syncErr' = Append(syncErr, st.err)
             /\ xfers' = Append(xfers, st.n)
    /\ runs' = runs + 1
    /\ UNCHANGED <<configVars, mainpc, pipelineVars>>

NextSync == InitialSync

SpecSync == InitSync /\ [][NextSync]_vars

----------------------------------------------------------------------------
(* The two sides of a session *)

SrcRoot == IF Direction = LocalToRemote THEN LocalDir ELSE RemoteDir
TgtRoot == IF Direction = LocalToRemote THEN RemoteDir ELSE LocalDir
SrcFS == IF Direction = LocalToRemote THEN localFS ELSE remoteFS
TgtFS == IF Direction = LocalToRemote THEN remoteFS ELSE localFS
SrcFS0 == IF Direction = LocalToRemote THEN fs0.l ELSE fs0.r
TgtFS0 == IF Direction = LocalToRemote THEN fs0.r ELSE fs0.l

\* the files under the authoritative root when the session was constructed
SrcFiles0 == {p \in DOMAIN SrcFS0 :
                 /\ SrcFS0[p].kind = "file"
                 /\ Len(p) > Len(SrcRoot)
                 /\ SubSeq(p, 1, Len(SrcRoot)) = SrcRoot}

\* the same relative path under the target root
Counterpart(p) == TgtRoot \o SubSeq(p, Len(SrcRoot) + 1, Len(p))

\* downloadFile returns nil without transferring such a file
Skipped(p) == variant = "sftp" /\ Direction = RemoteToLocal /\ ContainsSwp(p)

(* C1 as stated: when initialSync returns without error, every file that
   was under the authoritative root has a counterpart with identical
   content under the target root. *)
C1_Completeness ==
    (runs = 1 /\ ~syncErr[1]) =>
        \A p \in SrcFiles0 :
            /\ IsFile(TgtFS, Counterpart(p))
            /\ TgtFS[Counterpart(p)].content = SrcFS0[p].content

(* C1 amended: when initialSync returns without error, every file that was
   under the authoritative root and had no counterpart on the target side
   (and is not a ".swp" path the SFTP download skips) has a counterpart with
   identical content; a counterpart that already existed is not compared. *)
C1_CompletenessOfMissing ==
    (runs = 1 /\ ~syncErr[1]) =>
        \A p \in SrcFiles0 :
            (~Exists(TgtFS0, Counterpart(p)) /\ ~Skipped(p)) =>
                /\ IsFile(TgtFS, Counterpart(p))
                /\ TgtFS[Counterpart(p)].content = SrcFS0[p].content

C1_Witness ==
    /\ runs = 1 /\ ~syncErr[1] /\ xfers[1] = 2
    /\ \E p \in SrcFiles0 :
          /\ Len(p) = Len(SrcRoot) + 2
          /\ ~Exists(TgtFS0, Counterpart(p))
          /\ IsFile(TgtFS, Counterpart(p))
          /\ TgtFS[Counterpart(p)].content = SrcFS0[p].content

(* C12: a failure to transfer one file during initialSync leaves at most
   that file untransferred: of the files that lay directly under the
   authoritative root and needed a transfer (no counterpart, not a skipped
   ".swp" path), at most one is without an identical counterpart after the
   pass. *)
C12_OneBadFileDoesNotHalt ==
    (/\ runs = 1
     /\ IsDir(TgtFS0, TgtRoot)
     /\ \A p \in SrcFiles0 : Len(p) = Len(SrcRoot) + 1) =>
        Cardinality({p \in SrcFiles0 :
                        /\ ~Exists(TgtFS0, Counterpart(p))
                        /\ ~Skipped(p)
                        /\ ~(/\ IsFile(TgtFS, Counterpart(p))
                             /\ TgtFS[Counterpart(p)].content
                                    = SrcFS0[p].content)}) <= 1

(* C27: in a LocalToRemote reconciliation, when checkOrCreateDir returns
   nil for the remote counterpart of a local directory, that directory
   exists on the remote side afterwards, before syncDir recurses into it. *)
C27_TargetDirEnsured ==
    (variant = "sftp" /\ Direction = LocalToRemote) =>
        \A d \in DOMAIN localFS :
            (IsDir(localFS, d) /\ Parent(d) = LocalDir) =>
                LET c == sftpCheckOrCreateDir(SyncState(localFS, remoteFS),
                                              Direction, toRemotePath(d))
                IN  ~c.err => IsDir(c.r, toRemotePath(d))

\* the directories directly under the authoritative root whose counterpart
\* os.Stat reports missing and MkdirAll cannot create on the target side
FailedDirs ==
    {d \in DOMAIN SrcFS0 :
        /\ IsDir(SrcFS0, d) /\ Parent(d) = SrcRoot
        /\ Stat(fs0.l, Counterpart(d)) = "notexist"
        /\ ~MkdirAll(TgtFS0, Counterpart(d)).ok}

(* C28: when the creation of a target directory fails during initialSync,
   initialSync returns an error, nothing beneath that directory is
   transferred, and (LocalToRemote, where entries are visited in name
   order) no later entry is transferred either. *)
C28_MkdirFailureAborts ==
    (variant = "sftp" /\ runs >= 1 /\ FailedDirs # {}) =>
        /\ syncErr[1]
        /\ \A d \in FailedDirs, p \in DOMAIN TgtFS :
              (Len(p) > Len(Counterpart(d))
                 /\ SubSeq(p, 1, Len(Counterpart(d))) = Counterpart(d))
                  => (p \in DOMAIN TgtFS0 /\ TgtFS[p] = TgtFS0[p])
        /\ Direction = LocalToRemote =>
              (Exists(TgtFS, Append(TgtRoot, "v.swp"))
                  => Exists(TgtFS0, Append(TgtRoot, "v.swp")))

\* the remote s is a file where the local s is a directory, a was uploaded
\* before the failure and v.swp was not uploaded after it
C28_Witness ==
    /\ variant = "sftp" /\ Direction = LocalToRemote /\ runs = 1
    /\ FailedDirs # {}
    /\ syncErr[1]
    /\ xfers[1] >= 1
    /\ Exists(SrcFS0, Append(SrcRoot, "v.swp"))

(* C33: an uploadFile or downloadFile of initialSync that returns an error
   leaves its target path as it was: no pass leaves a created but not
   fully copied file on the target side. *)
C33_FailedTransferLeavesTarget ==
    variant = "sftp" =>
        \A p \in DOMAIN TgtFS :
            (p \notin DOMAIN TgtFS0 \/ TgtFS[p] # TgtFS0[p])
                => TgtFS[p].content # Partial

(* C4: when initialSync is run twice with no change in between and the
   first run returned without error, the second run transfers no file. *)
C4_Idempotent ==
    (runs >= 2 /\ ~syncErr[1]) => xfers[2] = 0

C4_Witness ==
    runs = 2 /\ ~syncErr[1] /\ xfers[1] > 0 /\ xfers[2] = 0

(* C5: initialSync leaves every file that exists on the target side as it
   was: it is not truncated, overwritten or removed, whatever the content or
   the modification time of the source. *)
C5_ExistenceOnly ==
    runs >= 1 =>
        \A p \in DOMAIN TgtFS0 :
            TgtFS0[p].kind = "file" =>
                /\ p \in DOMAIN TgtFS
                /\ TgtFS[p] = TgtFS0[p]

C5_Witness ==
    /\ runs >= 1 /\ xfers[1] > 0
    /\ \E p \in SrcFiles0 :
          /\ IsFile(TgtFS0, Counterpart(p))
          /\ TgtFS0[Counterpart(p)].content # SrcFS0[p].content
          /\ TgtFS0[Counterpart(p)].mtime < SrcFS0[p].mtime
          /\ TgtFS[Counterpart(p)] = TgtFS0[Counterpart(p)]

----------------------------------------------------------------------------
(* The worker pool: Pool.Tasks, Pool.WG and the Worker goroutines *)

\* logger.Fatal has not ended the process and no goroutine has panicked
Alive == mainpc # "fatal" /\ ~hist.panicked

\* a Worker that handles the task but does not call Done
WGDone_forgotten(h) ==
    /\ wg' = wg
    /\ hist' = [h EXCEPT !.handled = @ + 1]

\* a Worker that calls Done after the handler and once more after the switch
WGDone_twice(h) ==
    /\ wg' = IF wg > 1 THEN wg - 2 ELSE 0
    /\ hist' = [h EXCEPT !.handled = @ + 1, !.panicked = (wg < 2)]

\* Pool.WG.Done() after a task was handled, h being the history so far;
\* the counter going negative panics
WGDone(h) ==
    /\ wg' = IF wg > 0 THEN wg - 1 ELSE wg
    /\ hist' = [h EXCEPT !.handled = @ + 1, !.panicked = (wg = 0)]

\* a switch that tests the direction the wrong way round
sftpHandler_swapped(task) ==
    CASE task.EventType = "Create" ->
            IF Direction = LocalToRemote THEN "download" ELSE "upload"
      [] task.EventType = "Write" -> "upload"
      [] task.EventType = "Remove" ->
            IF Direction = LocalToRemote THEN "rmLocal" ELSE "rmRemote"
      [] OTHER -> "none"

\* the branch of the switch in Worker that handles the task
sftpHandler(task) ==
    CASE task.EventType = "Create" ->
            IF Direction = LocalToRemote THEN "upload" ELSE "download"
      [] task.EventType = "Write" -> "upload"
      [] task.EventType = "Remove" ->
            IF Direction = LocalToRemote THEN "rmRemote" ELSE "rmLocal"
      [] OTHER -> "none"

ftpHandler(task) ==
    CASE task.EventType = "Write" ->
            IF Direction = LocalToRemote THEN "upload" ELSE "download"
      [] task.EventType = "Remove" ->
            IF Direction = LocalToRemote THEN "rmRemote" ELSE "rmLocal"
      [] task.EventType = "Rename" -> "rename"
      [] OTHER -> "none"

Handler(task) ==
    IF variant = "sftp" THEN sftpHandler(task) ELSE ftpHandler(task)

BackToRecv(w) == [workers EXCEPT ![w] = [IdleWorker EXCEPT !.pc = "recv"]]

\* for i := 0; i < cap(s.Pool.Tasks); i++ { go s.Worker() }
StartWorkers ==
    /\ mainpc = "start"
    /\ mainpc' = "sync"
    /\ workers' = [w \in Workers |-> [IdleWorker EXCEPT !.pc = "recv"]]
    /\ UNCHANGED <<configVars, localFS, remoteFS, syncVars, Tasks, wg, mu,
                   events, watchSet, fwd, poll, cancelled, waiter, hist>>

\* a receive that leaves the task in the channel
WorkerRecv_peek(w) ==
    /\ Alive
    /\ workers[w].pc = "recv"
    /\ Tasks # <<>>
    /\ workers' = [workers EXCEPT ![w] = [pc |-> "handle", task |-> Head(Tasks),
                                          src |-> "none"]]
    /\ UNCHANGED <<configVars, localFS, remoteFS, mainpc, syncVars, Tasks, wg,
                   mu, events, watchSet, fwd, poll, cancelled, waiter, hist>>

\* for task := range s.Pool.Tasks
WorkerRecv(w) ==
    /\ Alive
    /\ workers[w].pc = "recv"
    /\ Tasks # <<>>
    /\ workers' = [workers EXCEPT ![w] = [pc |-> "handle", task |-> Head(Tasks),
                                          src |-> "none"]]
    /\ Tasks' = Tail(Tasks)
    /\ UNCHANGED <<configVars, localFS, remoteFS, mainpc, syncVars, wg, mu,
                   events, watchSet, fwd, poll, cancelled, waiter, hist>>

\* SFTP.uploadFile up to os.Open: s.mu.Lock(), filepath.Rel, os.Open
UploadOpen(w) ==
    /\ Alive
    /\ workers[w].pc = "handle"
    /\ Handler(workers[w].task) = "upload"
    /\ variant = "sftp"
    /\ mu = 0
    /\ LET filePath == workers[w].task.Name
       IN  IF ~Exists(localFS, filePath)
           THEN /\ workers' = BackToRecv(w)
                /\ WGDone([hist EXCEPT !.xferFailed = TRUE])
                /\ mu' = mu
           ELSE /\ workers' = [workers EXCEPT ![w].pc = "copy",
                                   ![w].src = IF IsFile(localFS, filePath)
                                              THEN localFS[filePath].content
                                              ELSE "dir"]
                /\ mu' = w
                /\ UNCHANGED <<wg, hist>>
    /\ UNCHANGED <<configVars, localFS, remoteFS, mainpc, syncVars, Tasks,
                   events, watchSet, fwd, poll, cancelled, waiter>>

\* what io.Copy can read from the file opened earlier: what it held when it
\* was opened or, if the path still names a file, what that file holds now
Readable(w) ==
    {workers[w].src} \cup
    (IF IsFile(localFS, workers[w].task.Name)
     THEN {localFS[workers[w].task.Name].content} ELSE {})

\* an uploadFile that returns without s.mu.Unlock()
UploadCopy_noUnlock(w) ==
    /\ Alive
    /\ workers[w].pc = "copy"
    /\ \E dst \in {toRemotePath(workers[w].task.Name)} :
           IF ~CanCreate(remoteFS, dst)
           THEN /\ remoteFS' = remoteFS
                /\ WGDone([hist EXCEPT !.xferFailed = TRUE])
           ELSE IF cancelled \/ workers[w].src = "dir"
           THEN /\ remoteFS' = Put(remoteFS, dst, File(Partial, MaxTime))
                /\ WGDone([hist EXCEPT !.xferFailed = TRUE])
           ELSE /\ \E c \in Readable(w) :
                      remoteFS' = Put(remoteFS, dst, File(c, MaxTime))
                /\ WGDone(hist)
    /\ mu' = mu
    /\ workers' = BackToRecv(w)
    /\ UNCHANGED <<configVars, localFS, mainpc, syncVars, Tasks, events,
                   watchSet, fwd, poll, cancelled, waiter>>

\* SFTP.uploadFile from Client.Create to its return, then WG.Done
UploadCopy(w) ==
    /\ Alive
    /\ workers[w].pc = "copy"
    /\ \E dst \in {toRemotePath(workers[w].task.Name)} :
           IF ~CanCreate(remoteFS, dst)
           THEN /\ remoteFS' = remoteFS
                /\ WGDone([hist EXCEPT !.xferFailed = TRUE])
           ELSE IF cancelled \/ workers[w].src = "dir"
           THEN /\ remoteFS' = Put(remoteFS, dst, File(Partial, MaxTime))
                /\ WGDone([hist EXCEPT !.xferFailed = TRUE])
           ELSE /\ \E c \in Readable(w) :
                      remoteFS' = Put(remoteFS, dst, File(c, MaxTime))
                /\ WGDone(hist)
    /\ mu' = 0
    /\ workers' = BackToRecv(w)
    /\ UNCHANGED <<configVars, localFS, mainpc, syncVars, Tasks, events,
                   watchSet, fwd, poll, cancelled, waiter>>

\* SFTP.RemoveRemoteFile (it does not take s.mu), then WG.Done
RemoveRemote(w) ==
    /\ Alive
    /\ workers[w].pc = "handle"
    /\ Handler(workers[w].task) = "rmRemote"
    /\ variant = "sftp"
    /\ \E dst \in {toRemotePath(workers[w].task.Name)} :
           remoteFS' = IF CanRemove(remoteFS, dst)
                       THEN Del(remoteFS, dst) ELSE remoteFS
    /\ WGDone(hist)
    /\ workers' = BackToRecv(w)
    /\ UNCHANGED <<configVars, localFS, mainpc, syncVars, Tasks, mu, events,
                   watchSet, fwd, poll, cancelled, waiter>>

\* a task whose EventType matches no case: only WG.Done
Ignore(w) ==
    /\ Alive
    /\ workers[w].pc = "handle"
    /\ Handler(workers[w].task) = "none"
    /\ WGDone(hist)
    /\ workers' = BackToRecv(w)
    /\ UNCHANGED <<configVars, localFS, remoteFS, mainpc, syncVars, Tasks, mu,
                   events, watchSet, fwd, poll, cancelled, waiter>>

----------------------------------------------------------------------------
(* Spec: WatchDirectory of src/sftp/sftp.go in a LocalToRemote session *)

Init ==
    /\ variant = "sftp"
    /\ Direction = LocalToRemote
    /\ localFS \in {Tree({<<LocalDir, DirEntry>>}),
                    Tree({<<LocalDir, DirEntry>>,
                          <<Append(LocalDir, "a"), File("X", 0)>>})}
    /\ remoteFS \in {Tree({<<RemoteDir, DirEntry>>}),
                     Tree({<<RemoteDir, DirEntry>>,
                           <<Append(RemoteDir, "a"), File("Z", 0)>>}),
                     EmptyTree}
    /\ fs0 = [l |-> localFS, r |-> remoteFS]
    /\ mainpc = "start"
    /\ runs = 0
    /\ syncErr = <<>>
    /\ xfers = <<>>
    /\ PipelineInit

\* a WatchDirectory that goes on to the watcher whatever initialSync returned
WatchInitialSync_goOn ==
    /\ mainpc = "sync"
    /\ \E io \in SyncIO(IF Direction = LocalToRemote THEN localFS ELSE remoteFS,
                        Direction) :
         LET st == initialSync(variant, SyncState(localFS, remoteFS), io,
                               Direction)
         IN  /\ localFS' = st.l
             /\ remoteFS' = st.r
             /\ syncErr' = Append(syncErr, st.err)
             /\ xfers' = Append(xfers, st.n)
             /\ mainpc' = "watcher"
    /\ runs' = runs + 1
    /\ UNCHANGED <<configVars, pipelineVars>>

\* err := s.initialSync(); if err != nil { logger.Fatal(err) }
WatchInitialSync ==
    /\ mainpc = "sync"
    /\ \E io \in SyncIO(IF Direction = LocalToRemote THEN localFS ELSE remoteFS,
                        Direction) :
         LET st == initialSync(variant, SyncState(localFS, remoteFS), io,
                               Direction)
         IN  /\ localFS' = st.l
             /\ remoteFS' = st.r
             /\ syncErr' = Append(syncErr, st.err)
             /\ xfers' = Append(xfers, st.n)
             /\ mainpc' = IF st.err THEN "fatal" ELSE "watcher"
    /\ runs' = runs + 1
    /\ UNCHANGED <<configVars, pipelineVars>>

\* the directories filepath.Walk(rootDir, ...) visits
WalkDirs(fs, rootDir) ==
    {q \in DOMAIN fs : /\ fs[q].kind = "dir"
                       /\ Len(q) >= Len(rootDir)
                       /\ SubSeq(q, 1, Len(rootDir)) = rootDir}

\* fsnotify.NewWatcher(), go func() { ... }(), and AddDirectoriesToWatcher
\* in the LocalToRemote case; WatchDirectory then blocks on <-s.ctx.Done()
SetupWatcher ==
    /\ mainpc = "watcher"
    /\ Direction = LocalToRemote
    /\ fwd' = [IdleFwd EXCEPT !.pc = "recv"]
    /\ watchSet' = WalkDirs(localFS, LocalDir)
    /\ mainpc' = "waiting"
    /\ UNCHANGED <<configVars, localFS, remoteFS, syncVars, Tasks, wg,
                   workers, mu, events, poll, cancelled, waiter, hist>>

\* fsnotify queues an event for a change in a watched directory
Notify(op, p) ==
    IF Parent(p) \in watchSet THEN Append(events, Task(op, p)) ELSE events

\* the user changes the local tree while the watch is running
UserMay == mainpc = "waiting" /\ Alive /\ ~hist.stopped
                              /\ hist.changes < MaxChanges

LocalCreate(p, c) ==
    /\ UserMay
    /\ CanCreate(localFS, p) /\ ~Exists(localFS, p)
    /\ localFS' = Put(localFS, p, File(c, MaxTime))
    /\ events' = Notify("Create", p)
    /\ hist' = [hist EXCEPT !.changes = @ + 1, !.life[p] = "live"]
    /\ UNCHANGED <<configVars, remoteFS, mainpc, syncVars, Tasks, wg, workers,
                   mu, watchSet, fwd, poll, cancelled, waiter>>

LocalWrite(p, c) ==
    /\ UserMay
    /\ IsFile(localFS, p) /\ localFS[p].content # c
    /\ localFS' = Put(localFS, p, File(c, MaxTime))
    /\ events' = Notify("Write", p)
    /\ hist' = [hist EXCEPT !.changes = @ + 1, !.life[p] = "live"]
    /\ UNCHANGED <<configVars, remoteFS, mainpc, syncVars, Tasks, wg, workers,
                   mu, watchSet, fwd, poll, cancelled, waiter>>

LocalRemove(p) ==
    /\ UserMay
    /\ IsFile(localFS, p)
    /\ localFS' = Del(localFS, p)
    /\ events' = Notify("Remove", p)
    /\ hist' = [hist EXCEPT !.changes = @ + 1,
                            !.life[p] = IF @ = "live" THEN "removed" ELSE @]
    /\ UNCHANGED <<configVars, remoteFS, mainpc, syncVars, Tasks, wg, workers,
                   mu, watchSet, fwd, poll, cancelled, waiter>>

\* a forwarder that sends the task without Pool.WG.Add(1) before it
FwdRecv_noAdd ==
    /\ Alive
    /\ fwd.pc = "recv"
    /\ events # <<>>
    /\ fwd' = [pc |-> "send", task |-> Head(events)]
    /\ events' = Tail(events)
    /\ hist' = [hist EXCEPT !.fwdIn = Append(@, Head(events))]
    /\ UNCHANGED <<configVars, localFS, remoteFS, mainpc, syncVars, Tasks, wg,
                   workers, mu, watchSet, poll, cancelled, waiter>>

\* case event, ok := <-watcher.Events: ...; s.Pool.WG.Add(1)
FwdRecv ==
    /\ Alive
    /\ fwd.pc = "recv"
    /\ events # <<>>
    /\ fwd' = [pc |-> "send", task |-> Head(events)]
    /\ events' = Tail(events)
    /\ wg' = wg + 1
    /\ hist' = [hist EXCEPT !.fwdIn = Append(@, Head(events))]
    /\ UNCHANGED <<configVars, localFS, remoteFS, mainpc, syncVars, Tasks,
                   workers, mu, watchSet, poll, cancelled, waiter>>

\* a forwarder that submits every event as a Write task
FwdSend_asWrite ==
    /\ Alive
    /\ fwd.pc = "send"
    /\ Len(Tasks) < PoolCap
    /\ Tasks' = Append(Tasks, Task("Write", fwd.task.Name))
    /\ fwd' = [pc |-> "recv", task |-> NoTask]
    /\ hist' = [hist EXCEPT !.submitted = @ + 1,
                            !.fwdOut = Append(@, Task("Write", fwd.task.Name))]
    /\ UNCHANGED <<configVars, localFS, remoteFS, mainpc, syncVars, wg,
                   workers, mu, events, watchSet, poll, cancelled, waiter>>

\* s.Pool.Tasks <- worker.Task{EventType: event.Op, Name: event.Name}
FwdSend ==
    /\ Alive
    /\ fwd.pc = "send"
    /\ Len(Tasks) < PoolCap
    /\ Tasks' = Append(Tasks, fwd.task)
    /\ fwd' = [pc |-> "recv", task |-> NoTask]
    /\ hist' = [hist EXCEPT !.submitted = @ + 1,
                            !.fwdOut = Append(@, fwd.task)]
    /\ UNCHANGED <<configVars, localFS, remoteFS, mainpc, syncVars, wg,
                   workers, mu, events, watchSet, poll, cancelled, waiter>>

Next ==
    \/ StartWorkers
    \/ WatchInitialSync
    \/ SetupWatcher
    \/ \E c \in Contents : LocalCreate(Append(LocalDir, "a"), c)
    \/ \E c \in Contents : LocalWrite(Append(LocalDir, "a"), c)
    \/ LocalRemove(Append(LocalDir, "a"))
    \/ FwdRecv
    \/ FwdSend
    \/ \E w \in Workers : WorkerRecv(w)
    \/ \E w \in Workers : UploadOpen(w)
    \/ \E w \in Workers : UploadCopy(w)
    \/ \E w \in Workers : RemoveRemote(w)

Spec == Init /\ [][Next]_vars

\* every event has been forwarded and every task has been handled
Quiescent ==
    /\ mainpc = "waiting"
    /\ events = <<>>
    /\ fwd.pc = "recv"
    /\ Tasks = <<>>
    /\ \A w \in Workers : workers[w].pc = "recv"

(* C2: in a LocalToRemote session with the watch running and no transfer
   failing, once every task has been handled a local file that was created
   or written under a watched directory exists at the corresponding remote
   path with the content the local file has. *)
C2_LiveUpload ==
    (Quiescent /\ ~hist.xferFailed) =>
        \A p \in LivePaths :
            (hist.life[p] = "live" /\ IsFile(localFS, p)) =>
                LET dst == Join(RemoteDir, Rel(LocalDir, p))
                IN  /\ IsFile(remoteFS, dst)
                    /\ remoteFS[dst].content = localFS[p].content

(* C3: in a LocalToRemote session, when a local file was created and then
   removed with no later change, once every submitted task has completed
   the remote counterpart does not exist. *)
C3_CreateThenRemove ==
    Quiescent =>
        \A p \in LivePaths :
            hist.life[p] = "removed" =>
                ~Exists(remoteFS, Join(RemoteDir, Rel(LocalDir, p)))

(* C15: every use of the shared connection is made under the session
   mutex: a worker whose step changes the remote tree is the worker that
   holds s.mu (the one between Lock and Unlock of uploadFile). *)
C15_SerializedAccess ==
    [][\A w \in Workers :
          (workers'[w] # workers[w] /\ remoteFS' # remoteFS)
              => (mu = w /\ workers[w].pc = "copy")]_vars

(* C24: the forwarding goroutine submits exactly one task for every event
   it has received from the watcher, with the event's kind and path and in
   the order of the events: the tasks sent are the events received, less the
   one the goroutine is about to send. *)
C24_EventsToTasks ==
    /\ Len(hist.fwdIn) = Len(hist.fwdOut) + (IF fwd.pc = "send" THEN 1 ELSE 0)
    /\ hist.fwdOut = SubSeq(hist.fwdIn, 1, Len(hist.fwdOut))
    /\ fwd.pc = "send" => fwd.task = hist.fwdIn[Len(hist.fwdIn)]

\* a Create, a Write and a Remove event have each become a task
C24_Witness ==
    /\ Len(hist.fwdOut) = MaxChanges
    /\ hist.fwdOut = hist.fwdIn
    /\ {hist.fwdOut[i].EventType : i \in 1..Len(hist.fwdOut)}
           = {"Create", "Write", "Remove"}

----------------------------------------------------------------------------
(* SpecPool: the worker package used as its documentation shows: start the   *)
(* workers, submit tasks, then Pool.WG.Wait().  waiter.add tells whether the *)
(* submitter calls WG.Add(1) before each send, as WatchDirectory does, or    *)
(* sends directly on Pool.Tasks, as the example of the Readme does.          *)

MaxTasks == 3       \* tasks the submitter sends

InitPool ==
    /\ variant = "sftp"
    /\ Direction = LocalToRemote
    /\ localFS = Tree({<<LocalDir, DirEntry>>,
                       <<Append(LocalDir, "a"), File("X", 0)>>})
    /\ remoteFS = Tree({<<RemoteDir, DirEntry>>})
    /\ fs0 = [l |-> localFS, r |-> remoteFS]
    /\ mainpc = "pool"
    /\ runs = 0
    /\ syncErr = <<>>
    /\ xfers = <<>>
    /\ Tasks = <<>>
    /\ wg = 0
    /\ workers = [w \in Workers |-> IdleWorker]
    /\ mu = 0
    /\ events = <<>>
    /\ watchSet = {}
    /\ fwd = IdleFwd
    /\ poll = IdlePoll
    /\ cancelled = FALSE
    /\ waiter \in {[pc |-> "start", add |-> b] : b \in BOOLEAN}
    /\ hist = NoHist

\* for i := 0; i < cap(pool.Tasks); i++ { go pool.Worker() }
MainStart ==
    /\ waiter.pc = "start"
    /\ waiter' = [waiter EXCEPT !.pc = "submit"]
    /\ workers' = [w \in Workers |-> [IdleWorker EXCEPT !.pc = "recv"]]
    /\ UNCHANGED <<configVars, localFS, remoteFS, mainpc, syncVars, Tasks, wg,
                   mu, events, watchSet, fwd, poll, cancelled, hist>>

\* s.Pool.WG.Add(1)
MainAdd ==
    /\ Alive
    /\ waiter.pc = "submit"
    /\ waiter.add
    /\ hist.submitted < MaxTasks
    /\ wg' = wg + 1
    /\ waiter' = [waiter EXCEPT !.pc = "send"]
    /\ UNCHANGED <<configVars, localFS, remoteFS, mainpc, syncVars, Tasks,
                   workers, mu, events, watchSet, fwd, poll, cancelled, hist>>

\* pool.Tasks <- worker.Task{EventType: op, Name: "file1.txt"}
MainSend(t) ==
    /\ Alive
    /\ \/ waiter.pc = "send"
       \/ waiter.pc = "submit" /\ ~waiter.add /\ hist.submitted < MaxTasks
    /\ Len(Tasks) < PoolCap
    /\ Tasks' = Append(Tasks, t)
    /\ waiter' = [waiter EXCEPT !.pc = "submit"]
    /\ hist' = [hist EXCEPT !.submitted = @ + 1]
    /\ UNCHANGED <<configVars, localFS, remoteFS, mainpc, syncVars, wg,
                   workers, mu, events, watchSet, fwd, poll, cancelled>>

\* the submitter stops and calls pool.WG.Wait()
MainWait ==
    /\ Alive
    /\ waiter.pc = "submit"
    /\ waiter' = [waiter EXCEPT !.pc = "wait"]
    /\ UNCHANGED <<configVars, localFS, remoteFS, mainpc, syncVars, Tasks, wg,
                   workers, mu, events, watchSet, fwd, poll, cancelled, hist>>

\* WG.Wait() returns: the counter is zero
WaitReturn ==
    /\ Alive
    /\ waiter.pc = "wait"
    /\ wg = 0
    /\ waiter' = [waiter EXCEPT !.pc = "returned"]
    /\ UNCHANGED <<configVars, localFS, remoteFS, mainpc, syncVars, Tasks, wg,
                   workers, mu, events, watchSet, fwd, poll, cancelled, hist>>

PoolTasks == {Task(op, Append(LocalDir, "a")) :
                 op \in {"Create", "Write", "Remove", "Chmod"}}

WorkerStep(w) ==
    \/ WorkerRecv(w)
    \/ UploadOpen(w)
    \/ UploadCopy(w)
    \/ RemoveRemote(w)
    \/ Ignore(w)

NextPool ==
    \/ MainStart
    \/ MainAdd
    \/ \E t \in PoolTasks : MainSend(t)
    \/ MainWait
    \/ WaitReturn
    \/ \E w \in Workers : WorkerStep(w)

SpecPool == InitPool /\ [][NextPool]_vars

\* the Go scheduler runs every goroutine that can take a step
FairSpecPool ==
    /\ SpecPool
    /\ \A w \in Workers : WF_vars(WorkerStep(w))
    /\ WF_vars(WaitReturn)

(* C9: with the workers running, once N tasks have been submitted by
   WG.Add(1) followed by a send and the submitter has stopped, WG.Wait()
   eventually returns; when it has returned the counter is 0 and every
   submitted task has been handled; with no task submitted the counter is 0
   when Wait is called. *)
C9_PoolDrain ==
    /\ (waiter.add /\ waiter.pc = "wait") ~> (waiter.pc = "returned")
    /\ []((waiter.add /\ waiter.pc = "returned") =>
             (wg = 0 /\ hist.handled = hist.submitted))
    /\ []((waiter.add /\ waiter.pc = "wait" /\ hist.submitted = 0) => wg = 0)

C9_Witness ==
    /\ waiter.add /\ waiter.pc = "returned"
    /\ hist.submitted = MaxTasks /\ hist.handled = MaxTasks /\ wg = 0

(* C10: in the documented usage (tasks sent directly on pool.Tasks, then
   pool.WG.Wait()), Wait has not returned while a submitted task is
   unprocessed. *)
C10_WaitCoversTasks ==
    (~waiter.add /\ waiter.pc = "returned") => hist.handled = hist.submitted

----------------------------------------------------------------------------
(* SpecPoll: WatchDirectory in a RemoteToLocal session, SFTP and FTP *)

MaxRetries == 3     \* ExtraConfig.MaxRetries

\* the attempts of a transfer that fail before one succeeds: all of them
\* when the source is no file or the target cannot be created, else the
\* number the network decides (flaky)
ftpFails(fs, src, creatable, flaky) ==
    IF IsFile(fs, src) /\ creatable THEN flaky ELSE MaxRetries

\* a loop that gives up after the first failed attempt
RECURSIVE ftpRetry_once(_, _)
ftpRetry_once(i, fails) ==
    IF i >= MaxRetries \/ (i >= 1 /\ fails >= 1)
    THEN [ok |-> FALSE, tries |-> i]
    ELSE IF i + 1 > fails THEN [ok |-> TRUE, tries |-> i + 1]
    ELSE ftpRetry_once(i + 1, fails)

\* for i := 0; i < f.config.MaxRetries; i++ { ... continue / return nil }:
\* the attempts made and whether one succeeded
RECURSIVE ftpRetry(_, _)
ftpRetry(i, fails) ==
    IF i >= MaxRetries THEN [ok |-> FALSE, tries |-> i]
    ELSE IF i + 1 > fails THEN [ok |-> TRUE, tries |-> i + 1]
    ELSE ftpRetry(i + 1, fails)

\* what the local file holds after a Retrieve that succeeded: every
\* attempt writes to the one file opened before the loop, which is neither
\* truncated nor rewound between attempts, so the bytes a failed attempt
\* wrote (io.wrote: whether it wrote any) stay in front of the content
ftpRetrieved(fs, remotePath, io, failed) ==
    LET e == Copied(fs, remotePath, io).e
    IN  IF failed >= 1 /\ io.wrote THEN [e EXCEPT !.content = Partial \o @]
        ELSE e

\* FTP.downloadFile(name): f.Lock(), os.Create(LocalDir/name), then up to
\* MaxRetries times client.Retrieve(RemoteDir/name, file); n counts the
\* attempts
ftpDownloadFile(st, io, name) ==
    LET dst == Join(LocalDir, name)
        remotePath == Join(RemoteDir, name)
        r == ftpRetry(0, ftpFails(st.r, remotePath, TRUE, io.flaky))
    IN  IF ~CanCreate(st.l, dst) THEN Fail(st)
        ELSE IF r.ok
             THEN [st EXCEPT !.l = Put(st.l, dst,
                                       ftpRetrieved(st.r, remotePath, io,
                                                    r.tries - 1)),
                             !.n = st.n + r.tries]
        ELSE [st EXCEPT !.l = Put(st.l, dst, File(Partial, MaxTime)),
                        !.err = TRUE,
                        !.n = st.n + r.tries]

\* strings.Replace(s, old, new, 1) on paths given by their components
ReplaceFirst(s, old, new) ==
    LET at == {i \in 1..(Len(s) - Len(old) + 1) :
                  SubSeq(s, i, i + Len(old) - 1) = old}
    IN  IF at = {} \/ old = <<>> THEN s
        ELSE LET i == CHOOSE j \in at : \A k \in at : j <= k
             IN  SubSeq(s, 1, i - 1) \o new \o SubSeq(s, i + Len(old), Len(s))

\* the remote path FTP.uploadFile stores to
ftpCorrectedFilePath(filePath) ==
    Join(RemoteDir, ReplaceFirst(filePath, LocalDir, <<>>))

\* FTP.uploadFile(filePath): os.Open, then up to MaxRetries times
\* client.Store(correctedFilePath, file); n counts the attempts
ftpUploadFile(st, io, filePath) ==
    LET dst == ftpCorrectedFilePath(filePath)
        r == ftpRetry(0, ftpFails(st.l, filePath, CanCreate(st.r, dst),
                                  io.flaky))
    IN  IF ~Exists(st.l, filePath) THEN Fail(st)
        ELSE IF r.ok
             THEN [st EXCEPT !.r = Put(st.r, dst, Copied(st.l, filePath, io).e),
                             !.n = st.n + r.tries]
        ELSE [st EXCEPT !.r = IF CanCreate(st.r, dst)
                              THEN Put(st.r, dst, File(Partial, MaxTime))
                              ELSE st.r,
                        !.err = TRUE,
                        !.n = st.n + r.tries]

\* FTP.removeRemoteFile(filePath): client.Delete of the path with LocalDir
\* replaced by RemoteDir
ftpRemoveRemoteFile(st, filePath) ==
    LET remotePath == ReplaceFirst(filePath, LocalDir, RemoteDir)
    IN  IF CanRemove(st.r, remotePath)
        THEN [st EXCEPT !.r = Del(st.r, remotePath)]
        ELSE Fail(st)

\* FTP.removeLocalFile(filePath): os.Remove(filePath)
ftpRemoveLocalFile(st, filePath) ==
    IF CanRemove(st.l, filePath)
    THEN [st EXCEPT !.l = Del(st.l, filePath)]
    ELSE Fail(st)

\* SFTP.convertRemoteToLocalPath
convertRemoteToLocalPath(remotePath) ==
    Join(LocalDir, Rel(RemoteDir, remotePath))

\* the rootDir WatchDirectory passes to AddDirectoriesToWatcher
PollRoot == IF variant = "sftp" THEN RemoteDir ELSE LocalDir

\* walkRemoteDir: the paths put in the files map; the FTP variant also
\* records the directories
RECURSIVE walkRemoteDir(_, _, _)
walkRemoteDir(fs, v, dir) ==
    UNION {LET join == Append(dir, n)
           IN  IF join \notin DOMAIN fs THEN {}
               ELSE IF fs[join].kind = "dir"
                    THEN (IF v = "ftp" THEN {join} ELSE {})
                         \cup walkRemoteDir(fs, v, join)
               ELSE {join} : n \in Names}

\* the files map filled by walkRemoteDir
Snapshot(fs, v, dir) ==
    [p \in walkRemoteDir(fs, v, dir) |->
        [kind |-> fs[p].kind, mtime |-> fs[p].mtime]]

\* a comparison that also takes an unchanged modification time as later
Before_orSame(t1, t2) == t1 <= t2

\* prevFile.ModTime().Before(file.ModTime())
Before(t1, t2) == t1 < t2

\* the paths of the first loop of the diff: new or modified
DiffNew(prevFiles, newFiles) ==
    IF prevFiles.nil THEN {}
    ELSE {q \in DOMAIN newFiles :
             \/ q \notin DOMAIN prevFiles.files
             \/ Before(prevFiles.files[q].mtime, newFiles[q].mtime)}

\* a second loop that runs although prevFiles is nil
DiffRemoved_nilAsEmpty(prevFiles, newFiles) ==
    IF prevFiles.nil THEN DOMAIN newFiles
    ELSE DOMAIN prevFiles.files \ DOMAIN newFiles

\* the paths of the second loop of the diff: removed
DiffRemoved(prevFiles, newFiles) ==
    IF prevFiles.nil THEN {}
    ELSE DOMAIN prevFiles.files \ DOMAIN newFiles

\* the EventType the loop gives a new or modified path
TransferOp == IF variant = "sftp" THEN "Create" ELSE "Write"

RemoteLive == {Append(PollRoot, n) : n \in Names}

InitPoll ==
    /\ variant \in {"sftp", "ftp"}
    /\ Direction = RemoteToLocal
    /\ localFS = Tree({<<LocalDir, DirEntry>>})
    /\ \E root \in BOOLEAN :
         remoteFS = Tree({<<RemoteDir, DirEntry>>}
             \cup (IF root \/ variant = "sftp"
                   THEN {<<PollRoot, DirEntry>>,
                         <<Append(PollRoot, "a"), File("X", 0)>>,
                         <<Append(PollRoot, "s"), File("X", 0)>>}
                   ELSE {}))
    /\ fs0 = [l |-> localFS, r |-> remoteFS]
    /\ mainpc = "start"
    /\ runs = 0
    /\ syncErr = <<>>
    /\ xfers = <<>>
    /\ PipelineInit

\* WatchDirectory reaches AddDirectoriesToWatcher, RemoteToLocal case
SetupPoll ==
    /\ mainpc = "watcher"
    /\ Direction = RemoteToLocal
    /\ fwd' = [IdleFwd EXCEPT !.pc = "recv"]
    /\ poll' = [IdlePoll EXCEPT !.pc = "list"]
    /\ mainpc' = "polling"
    /\ UNCHANGED <<configVars, localFS, remoteFS, syncVars, Tasks, wg,
                   workers, mu, events, watchSet, cancelled, waiter, hist>>

\* one iteration up to the diff: walkRemoteDir, then the two loops decide
\* which paths get a task
PollList ==
    /\ Alive
    /\ poll.pc = "list"
    /\ hist.iter < MaxPolls
    /\ IF ~IsDir(remoteFS, PollRoot)
       THEN /\ mainpc' = "fatal"
            /\ UNCHANGED <<poll, hist>>
       ELSE LET newFiles == Snapshot(remoteFS, variant, PollRoot)
            IN  /\ poll' = [poll EXCEPT
                              !.pc = "emit",
                              !.newFiles = newFiles,
                              !.pendW = DiffNew(poll.prevFiles, newFiles),
                              !.pendR = DiffRemoved(poll.prevFiles, newFiles)]
                /\ hist' = [hist EXCEPT
                              !.iter = @ + 1,
                              !.s1 = poll.prevFiles,
                              !.s2 = newFiles,
                              !.emitted = <<>>,
                              !.afterCancel = IF cancelled THEN @ + 1 ELSE @]
                /\ mainpc' = mainpc
    /\ UNCHANGED <<configVars, localFS, remoteFS, syncVars, Tasks, wg,
                   workers, mu, events, watchSet, fwd, cancelled, waiter>>

\* s.Pool.WG.Add(1) for the next path of the loop that is running
PollAdd ==
    /\ Alive
    /\ poll.pc = "emit"
    /\ \/ \E q \in poll.pendW :
            poll' = [poll EXCEPT !.pc = "send", !.pendW = @ \ {q},
                                 !.task = Task(TransferOp, q)]
       \/ /\ poll.pendW = {}
          /\ \E q \in poll.pendR :
               poll' = [poll EXCEPT !.pc = "send", !.pendR = @ \ {q},
                                    !.task = Task("Remove", q)]
    /\ wg' = wg + 1
    /\ UNCHANGED <<configVars, localFS, remoteFS, mainpc, syncVars, Tasks,
                   workers, mu, events, watchSet, fwd, cancelled, waiter, hist>>

\* s.Pool.Tasks <- worker.Task{...}
PollSend ==
    /\ Alive
    /\ poll.pc = "send"
    /\ Len(Tasks) < PoolCap
    /\ Tasks' = Append(Tasks, poll.task)
    /\ poll' = [poll EXCEPT !.pc = "emit", !.task = NoTask]
    /\ hist' = [hist EXCEPT !.submitted = @ + 1,
                            !.emitted = Append(@, poll.task)]
    /\ UNCHANGED <<configVars, localFS, remoteFS, mainpc, syncVars, wg,
                   workers, mu, events, watchSet, fwd, cancelled, waiter>>

\* a loop that keeps the old snapshot when a transfer of the session failed
PollEnd_keepOnFailure ==
    /\ Alive
    /\ poll.pc = "emit"
    /\ poll.pendW = {} /\ poll.pendR = {}
    /\ poll' = [poll EXCEPT
                  !.prevFiles = IF hist.xferFailed THEN poll.prevFiles
                                ELSE MapOf(poll.newFiles),
                  !.pc = IF variant = "ftp" /\ cancelled
                         THEN "exited" ELSE "list"]
    /\ mainpc' = IF variant = "ftp" /\ cancelled THEN "done" ELSE mainpc
    /\ UNCHANGED <<configVars, localFS, remoteFS, syncVars, Tasks, wg,
                   workers, mu, events, watchSet, fwd, cancelled, waiter, hist>>

\* prevFiles = newFiles; the FTP loop then returns if ctx is done; otherwise
\* time.Sleep and the next iteration
PollEnd ==
    /\ Alive
    /\ poll.pc = "emit"
    /\ poll.pendW = {} /\ poll.pendR = {}
    /\ poll' = [poll EXCEPT
                  !.prevFiles = MapOf(poll.newFiles),
                  !.pc = IF variant = "ftp" /\ cancelled
                         THEN "exited" ELSE "list"]
    /\ mainpc' = IF variant = "ftp" /\ cancelled THEN "done" ELSE mainpc
    /\ UNCHANGED <<configVars, localFS, remoteFS, syncVars, Tasks, wg,
                   workers, mu, events, watchSet, fwd, cancelled, waiter, hist>>

\* the session's context is cancelled
Cancel ==
    /\ Alive
    /\ mainpc = "polling"
    /\ ~cancelled
    /\ cancelled' = TRUE
    /\ UNCHANGED <<configVars, localFS, remoteFS, mainpc, syncVars, Tasks, wg,
                   workers, mu, events, watchSet, fwd, poll, waiter, hist>>

\* somebody changes the remote tree while the session polls
RemoteMay ==
    /\ mainpc = "polling" /\ Alive
    /\ hist.changes < MaxChanges /\ hist.iter < MaxPolls

RemoteCreate(q, t) ==
    /\ RemoteMay
    /\ CanCreate(remoteFS, q) /\ ~Exists(remoteFS, q)
    /\ remoteFS' = Put(remoteFS, q, File("X", t))
    /\ hist' = [hist EXCEPT !.changes = @ + 1]
    /\ UNCHANGED <<configVars, localFS, mainpc, syncVars, Tasks, wg, workers,
                   mu, events, watchSet, fwd, poll, cancelled, waiter>>

RemoteWrite(q, t) ==
    /\ RemoteMay
    /\ IsFile(remoteFS, q)
    /\ remoteFS' = Put(remoteFS, q, File("Z", t))
    /\ remoteFS' # remoteFS
    /\ hist' = [hist EXCEPT !.changes = @ + 1]
    /\ UNCHANGED <<configVars, localFS, mainpc, syncVars, Tasks, wg, workers,
                   mu, events, watchSet, fwd, poll, cancelled, waiter>>

RemoteRemove(q) ==
    /\ RemoteMay
    /\ IsFile(remoteFS, q)
    /\ remoteFS' = Del(remoteFS, q)
    /\ hist' = [hist EXCEPT !.changes = @ + 1]
    /\ UNCHANGED <<configVars, localFS, mainpc, syncVars, Tasks, wg, workers,
                   mu, events, watchSet, fwd, poll, cancelled, waiter>>

\* what the environment decides for a transfer a worker runs: flaky, the
\* attempts of an FTP transfer that fail before one succeeds; wrote, whether
\* a failed attempt wrote bytes before it failed
WorkerIO ==
    {[bad |-> {}, ord |-> NameSeq, lf |-> FALSE, ctx |-> cancelled,
      flaky |-> k, wrote |-> b] :
        k \in IF variant = "ftp" THEN 0..MaxRetries ELSE {0},
        b \in IF variant = "ftp" THEN BOOLEAN ELSE {FALSE}}

\* the last FTP transfer that reached its retry loop: the attempts it made,
\* whether it returned an error, whether every attempt was bound to fail
ftpXfer(st, looped, fails) ==
    IF looped
    THEN [tries |-> st.n, err |-> st.err, allFail |-> fails >= MaxRetries]
    ELSE hist.xfer

\* downloadFile in a worker, then WG.Done (the FTP one holds the lock)
Download(w) ==
    /\ Alive
    /\ workers[w].pc = "handle"
    /\ Handler(workers[w].task) = "download"
    /\ variant = "ftp" => mu = 0
    /\ \E io \in WorkerIO :
         LET name == workers[w].task.Name
             st0 == SyncState(localFS, remoteFS)
             st == IF variant = "sftp"
                   THEN sftpDownloadFile(st0, io, name)
                   ELSE ftpDownloadFile(st0, io, name)
             looped == variant = "ftp" /\ CanCreate(localFS, Join(LocalDir, name))
             fails == ftpFails(remoteFS, Join(RemoteDir, name), TRUE, io.flaky)
         IN  /\ localFS' = st.l
             /\ WGDone([hist EXCEPT !.xferFailed = @ \/ st.err,
                                    !.xfer = ftpXfer(st, looped, fails)])
    /\ workers' = BackToRecv(w)
    /\ UNCHANGED <<configVars, remoteFS, mainpc, syncVars, Tasks, mu, events,
                   watchSet, fwd, poll, cancelled, waiter>>

\* RemoveLocalFile / removeLocalFile in a worker (under the lock), then
\* WG.Done
RemoveLocal(w) ==
    /\ Alive
    /\ workers[w].pc = "handle"
    /\ Handler(workers[w].task) = "rmLocal"
    /\ mu = 0
    /\ LET toLocalPath == IF variant = "sftp"
                          THEN convertRemoteToLocalPath(workers[w].task.Name)
                          ELSE workers[w].task.Name
       IN  localFS' = IF CanRemove(localFS, toLocalPath)
                      THEN Del(localFS, toLocalPath) ELSE localFS
    /\ WGDone(hist)
    /\ workers' = BackToRecv(w)
    /\ UNCHANGED <<configVars, remoteFS, mainpc, syncVars, Tasks, mu, events,
                   watchSet, fwd, poll, cancelled, waiter>>

NextPoll ==
    \/ StartWorkers
    \/ WatchInitialSync
    \/ SetupPoll
    \/ PollList
    \/ PollAdd
    \/ PollSend
    \/ PollEnd
    \/ Cancel
    \/ \E q \in RemoteLive, t \in 0..MaxTime : RemoteCreate(q, t)
    \/ \E q \in RemoteLive, t \in 0..MaxTime : RemoteWrite(q, t)
    \/ \E q \in RemoteLive : RemoteRemove(q)
    \/ \E w \in Workers : WorkerRecv(w)
    \/ \E w \in Workers : Download(w)
    \/ \E w \in Workers : RemoveLocal(w)

SpecPoll == InitPoll /\ [][NextPoll]_vars

(* C30: an FTP worker that handles a task of the poll loop for the listed
   path root/r acts on the local path LocalDir/r and on no other: after a
   Write task LocalDir/r is a file, after a Remove task it is gone. *)
C30_FtpPathTranslation ==
    [][\A w \in Workers :
         (/\ variant = "ftp"
          /\ workers[w].pc = "handle"
          /\ workers[w].task.EventType \in {"Write", "Remove"}
          /\ workers'[w].pc = "recv")
         => LET target == Join(LocalDir, Rel(PollRoot, workers[w].task.Name))
            IN  /\ \A q \in (DOMAIN localFS \cup DOMAIN localFS') \ {target} :
                      /\ q \in DOMAIN localFS /\ q \in DOMAIN localFS'
                      /\ localFS'[q] = localFS[q]
                /\ workers[w].task.EventType = "Write"
                      => IsFile(localFS', target)
                /\ workers[w].task.EventType = "Remove"
                      => ~Exists(localFS', target)]_vars

\* one iteration of the loop has sent all its tasks
CycleDone == hist.iter >= 1 /\ poll.pc \in {"list", "exited"}

S1 == hist.s1.files

\* the tasks the claim expects of a cycle, op being the kind for transfers
Expected(op) ==
    IF hist.s1.nil THEN {}
    ELSE {Task(op, q) : q \in {x \in DOMAIN hist.s2 :
                                 \/ x \notin DOMAIN S1
                                 \/ S1[x].mtime < hist.s2[x].mtime}}
         \cup {Task("Remove", q) : q \in DOMAIN S1 \ DOMAIN hist.s2}

EmittedSet == {hist.emitted[i] : i \in 1..Len(hist.emitted)}

ExactlyOnce(op) ==
    /\ EmittedSet \subseteq Expected(op)
    /\ Cardinality(EmittedSet) = Len(hist.emitted)
    /\ CycleDone => EmittedSet = Expected(op)

(* C6 as stated: in a poll cycle with a previous snapshot the tasks emitted
   are exactly one Write(p) per new or later-modified path, one Remove(p)
   per path that disappeared, and nothing else. *)
C6_PollDiffWrite ==
    ~hist.s1.nil => ExactlyOnce("Write")

(* C6 amended: the same, the task of a new or later-modified path being
   Write(p) in the FTP loop and Create(p) in the SFTP loop. *)
C6_PollDiff ==
    ~hist.s1.nil => ExactlyOnce(TransferOp)

C6_Witness ==
    /\ CycleDone /\ ~hist.s1.nil /\ Len(hist.emitted) = 3
    /\ \E x \in DOMAIN S1 \cap DOMAIN hist.s2 :
          /\ S1[x].mtime < hist.s2[x].mtime
          /\ Task(TransferOp, x) \in EmittedSet
    /\ \E x \in DOMAIN hist.s2 \ DOMAIN S1 :
          Task(TransferOp, x) \in EmittedSet
    /\ \E x \in DOMAIN S1 \ DOMAIN hist.s2 :
          Task("Remove", x) \in EmittedSet

(* C7: the first iteration of the poll loop submits no task, whatever the
   remote tree holds; it only records the snapshot. *)
C7_FirstIterationSilent ==
    hist.iter = 1 =>
        /\ hist.emitted = <<>>
        /\ poll.task = NoTask
        /\ poll.pendW = {} /\ poll.pendR = {}
        /\ hist.submitted = 0 /\ wg = 0
        /\ poll.pc = "list" => poll.prevFiles = MapOf(hist.s2)

C7_Witness ==
    /\ hist.iter = 1 /\ poll.pc = "list"
    /\ DOMAIN hist.s2 # {}
    /\ poll.prevFiles = MapOf(hist.s2)
    /\ hist.submitted = 0

(* C32: at the end of every poll cycle the previous snapshot becomes the
   listing of that cycle, whatever became of the tasks it emitted; a cycle
   whose listing equals the previous one emits no task, so a change seen in
   one cycle is not emitted again in a later one. *)
C32_SnapshotReplacement ==
    /\ [][(poll.pc = "emit" /\ poll'.pc \notin {"emit", "send"})
            => poll'.prevFiles = MapOf(hist.s2)]_vars
    /\ []((~hist.s1.nil /\ hist.s1.files = hist.s2)
            => (/\ hist.emitted = <<>>
                /\ poll.task = NoTask
                /\ poll.pendW = {} /\ poll.pendR = {}))

\* the second cycle emitted a task whose transfer failed, the third listed
\* an unchanged tree and emitted nothing
C32_Witness ==
    /\ hist.iter = MaxPolls /\ poll.pc = "list"
    /\ ~hist.s1.nil /\ hist.s1.files = hist.s2
    /\ hist.xferFailed
    /\ hist.submitted >= 1 /\ hist.handled = hist.submitted
    /\ hist.emitted = <<>>

(* C8: once the cancellation signal is set the poll loop starts at most one
   more diff cycle. *)
C8_CancelStopsPoll ==
    hist.afterCancel <= 1

----------------------------------------------------------------------------
(* SpecFtp: the workers of an FTP session (src/unnamed/part_010) handling    *)
(* the tasks a producer submits with WG.Add(1) and a send, in either         *)
(* direction.                                                                *)

InitFtp ==
    /\ variant = "ftp"
    /\ Direction \in {LocalToRemote, RemoteToLocal}
    /\ localFS = Tree({<<LocalDir, DirEntry>>,
                       <<Append(LocalDir, "a"), File("X", 0)>>})
    /\ remoteFS \in {Tree({<<RemoteDir, DirEntry>>}),
                     Tree({<<RemoteDir, DirEntry>>,
                           <<Append(RemoteDir, "a"), File("Z", 0)>>})}
    /\ fs0 = [l |-> localFS, r |-> remoteFS]
    /\ mainpc = "pool"
    /\ runs = 0
    /\ syncErr = <<>>
    /\ xfers = <<>>
    /\ Tasks = <<>>
    /\ wg = 0
    /\ workers = [w \in Workers |-> IdleWorker]
    /\ mu = 0
    /\ events = <<>>
    /\ watchSet = {}
    /\ fwd = IdleFwd
    /\ poll = IdlePoll
    /\ cancelled = FALSE
    /\ waiter = [pc |-> "start", add |-> TRUE]
    /\ hist = NoHist

\* the tasks of an FTP session: event.Name of a local event, or a path
\* relative to the configured directories
FtpTasks ==
    {Task(op, IF Direction = LocalToRemote THEN Append(LocalDir, "a")
              ELSE <<"a">>) :
        op \in {"Write", "Remove", "Rename", "Chmod"}}

\* FTP.uploadFile in a worker (it does not take the lock), then WG.Done
FtpUpload(w) ==
    /\ Alive
    /\ workers[w].pc = "handle"
    /\ Handler(workers[w].task) = "upload"
    /\ variant = "ftp"
    /\ \E io \in WorkerIO :
         LET filePath == workers[w].task.Name
             st == ftpUploadFile(SyncState(localFS, remoteFS), io, filePath)
             fails == ftpFails(localFS, filePath,
                               CanCreate(remoteFS, ftpCorrectedFilePath(filePath)),
                               io.flaky)
         IN  /\ remoteFS' = st.r
             /\ WGDone([hist EXCEPT !.xferFailed = @ \/ st.err,
                                    !.xfer = ftpXfer(st, Exists(localFS, filePath),
                                                     fails)])
    /\ workers' = BackToRecv(w)
    /\ UNCHANGED <<configVars, localFS, mainpc, syncVars, Tasks, mu, events,
                   watchSet, fwd, poll, cancelled, waiter>>

\* FTP.removeRemoteFile in a worker (under the lock), then WG.Done
FtpRemoveRemote(w) ==
    /\ Alive
    /\ workers[w].pc = "handle"
    /\ Handler(workers[w].task) = "rmRemote"
    /\ variant = "ftp"
    /\ mu = 0
    /\ remoteFS' = ftpRemoveRemoteFile(SyncState(localFS, remoteFS),
                                       workers[w].task.Name).r
    /\ WGDone(hist)
    /\ workers' = BackToRecv(w)
    /\ UNCHANGED <<configVars, localFS, mainpc, syncVars, Tasks, mu, events,
                   watchSet, fwd, poll, cancelled, waiter>>

\* case fsnotify.Rename of FTP.Worker: the transfer, then the removal on the
\* same side the transfer wrote to, then WG.Done
FtpRename(w) ==
    /\ Alive
    /\ workers[w].pc = "handle"
    /\ Handler(workers[w].task) = "rename"
    /\ mu = 0
    /\ \E io \in WorkerIO :
         LET name == workers[w].task.Name
             st0 == SyncState(localFS, remoteFS)
             st1 == IF Direction = LocalToRemote
                    THEN ftpUploadFile(st0, io, name)
                    ELSE ftpDownloadFile(st0, io, name)
             st2 == IF Direction = LocalToRemote
                    THEN ftpRemoveRemoteFile(st1, name)
                    ELSE ftpRemoveLocalFile(st1, name)
             looped == IF Direction = LocalToRemote
                       THEN Exists(localFS, name)
                       ELSE CanCreate(localFS, Join(LocalDir, name))
             fails == IF Direction = LocalToRemote
                      THEN ftpFails(localFS, name,
                                    CanCreate(remoteFS, ftpCorrectedFilePath(name)),
                                    io.flaky)
                      ELSE ftpFails(remoteFS, Join(RemoteDir, name), TRUE,
                                    io.flaky)
         IN  /\ localFS' = st2.l
             /\ remoteFS' = st2.r
             /\ WGDone([hist EXCEPT !.xferFailed = @ \/ st1.err,
                                    !.xfer = ftpXfer(st1, looped, fails)])
    /\ workers' = BackToRecv(w)
    /\ UNCHANGED <<configVars, mainpc, syncVars, Tasks, mu, events, watchSet,
                   fwd, poll, cancelled, waiter>>

NextFtp ==
    \/ MainStart
    \/ MainAdd
    \/ \E t \in FtpTasks : MainSend(t)
    \/ MainWait
    \/ WaitReturn
    \/ \E w \in Workers : WorkerRecv(w)
    \/ \E w \in Workers : FtpUpload(w)
    \/ \E w \in Workers : Download(w)
    \/ \E w \in Workers : FtpRemoveRemote(w)
    \/ \E w \in Workers : RemoveLocal(w)
    \/ \E w \in Workers : FtpRename(w)
    \/ \E w \in Workers : Ignore(w)

SpecFtp == InitFtp /\ [][NextFtp]_vars

(* C11: an FTP upload or download whose every attempt fails is attempted
   exactly MaxRetries times and returns an error; the worker that ran it
   then decrements the outstanding count and is back receiving tasks. *)
C11_RetryExhaustion ==
    /\ [](hist.xfer.allFail =>
             (hist.xfer.tries = MaxRetries /\ hist.xfer.err))
    /\ [][\A w \in Workers :
            (/\ workers[w].pc = "handle"
             /\ workers'[w].pc # "handle"
             /\ hist'.xfer.allFail
             /\ hist'.xferFailed)
            => (/\ wg' = wg - 1
                /\ workers'[w].pc = "recv"
                /\ ~hist'.panicked)]_vars

(* C39: when FTP downloadFile succeeds on attempt k >= 2 after earlier       *)
(* attempts failed, the local file it wrote holds the content of the remote *)
(* file.                                                                    *)
C39_ContentIntegrityAcrossRetries ==
    [][\A w \in Workers :
         LET name == workers[w].task.Name
             dst == Join(LocalDir, name)
         IN  (/\ workers[w].pc = "handle"
              /\ Handler(workers[w].task) = "download"
              /\ workers'[w].pc # "handle"
              /\ CanCreate(localFS, dst)
              /\ hist'.xfer.tries >= 2
              /\ ~hist'.xfer.err)
             => (/\ IsFile(localFS', dst)
                 /\ localFS'[dst].content
                        = remoteFS[Join(RemoteDir, name)].content)]_vars

\* a transfer has exhausted its attempts and the pool has handled a later
\* task and drained
C11_Witness ==
    /\ hist.xfer.allFail /\ hist.xfer.tries = MaxRetries /\ hist.xfer.err
    /\ hist.handled = MaxTasks /\ wg = 0
    /\ waiter.pc = "returned"

----------------------------------------------------------------------------
(* SpecRename: the workers of either engine, in either direction, handling  *)
(* Rename tasks for the file a.                                              *)

InitRename ==
    /\ variant \in {"sftp", "ftp"}
    /\ Direction \in {LocalToRemote, RemoteToLocal}
    /\ localFS \in {Tree({<<LocalDir, DirEntry>>}),
                    Tree({<<LocalDir, DirEntry>>,
                          <<Append(LocalDir, "a"), File("X", 0)>>})}
    /\ remoteFS \in {Tree({<<RemoteDir, DirEntry>>}),
                     Tree({<<RemoteDir, DirEntry>>,
                           <<Append(RemoteDir, "a"), File("Z", 0)>>})}
    /\ fs0 = [l |-> localFS, r |-> remoteFS]
    /\ mainpc = "pool"
    /\ runs = 0
    /\ syncErr = <<>>
    /\ xfers = <<>>
    /\ Tasks = <<>>
    /\ wg = 0
    /\ workers = [w \in Workers |-> IdleWorker]
    /\ mu = 0
    /\ events = <<>>
    /\ watchSet = {}
    /\ fwd = IdleFwd
    /\ poll = IdlePoll
    /\ cancelled = FALSE
    /\ waiter = [pc |-> "start", add |-> TRUE]
    /\ hist = NoHist

\* the name a task for the file a carries: event.Name in a LocalToRemote
\* session, the remote path (sftp) or the name under the configured
\* directories (ftp) in a RemoteToLocal one
RenameName ==
    IF Direction = LocalToRemote THEN Append(LocalDir, "a")
    ELSE IF variant = "sftp" THEN Append(RemoteDir, "a")
    ELSE <<"a">>

NextRename ==
    \/ MainStart
    \/ MainAdd
    \/ MainSend(Task("Rename", RenameName))
    \/ MainWait
    \/ WaitReturn
    \/ \E w \in Workers : WorkerRecv(w)
    \/ \E w \in Workers : FtpRename(w)
    \/ \E w \in Workers : Ignore(w)

SpecRename == InitRename /\ [][NextRename]_vars

(* C29: a worker that handles a Rename task transfers the path and then
   removes the counterpart on the target side: when it has finished, the
   counterpart on the target side does not exist. *)
C29_RenameTransferThenRemove ==
    [][\A w \in Workers :
         (/\ workers[w].pc = "handle"
          /\ workers[w].task.EventType = "Rename"
          /\ workers'[w].pc = "recv")
         => IF Direction = LocalToRemote
            THEN ~Exists(remoteFS', Append(RemoteDir, "a"))
            ELSE ~Exists(localFS', Append(LocalDir, "a"))]_vars

----------------------------------------------------------------------------
(* SpecSession: WatchDirectory of either engine in either direction: the    *)
(* fsnotify watch of a LocalToRemote session, the poll loop of a            *)
(* RemoteToLocal one.                                                       *)

InitSession ==
    \/ Init
    \/ InitPoll
    \/ /\ variant = "ftp"
       /\ Direction = LocalToRemote
       /\ localFS \in {Tree({<<LocalDir, DirEntry>>}),
                       Tree({<<LocalDir, DirEntry>>,
                             <<Append(LocalDir, "a"), File("X", 0)>>})}
       /\ remoteFS = Tree({<<RemoteDir, DirEntry>>})
       /\ fs0 = [l |-> localFS, r |-> remoteFS]
       /\ mainpc = "start"
       /\ runs = 0
       /\ syncErr = <<>>
       /\ xfers = <<>>
       /\ PipelineInit

NextSession ==
    \/ Next
    \/ NextPoll
    \/ \E w \in Workers : FtpUpload(w)
    \/ \E w \in Workers : FtpRemoveRemote(w)
    \/ \E w \in Workers : Ignore(w)

SpecSession == InitSession /\ [][NextSession]_vars

(* C13: no step of the engine changes the authoritative side: in a
   LocalToRemote session the local tree changes only when the user changes
   it, in a RemoteToLocal session the remote tree changes only when somebody
   changes it on the server. *)
C13_AuthoritativeUntouched ==
    [][hist'.changes = hist.changes =>
          /\ Direction = LocalToRemote => localFS' = localFS
          /\ Direction = RemoteToLocal => remoteFS' = remoteFS]_vars

\* the engine has written to the target side after a live task
C13_Witness ==
    /\ hist.handled >= 1
    /\ hist.changes >= 1
    /\ TgtFS # TgtFS0
    /\ ~hist.xferFailed

----------------------------------------------------------------------------
(* SpecPath: the two path translations of src/sftp/sftp.go applied one      *)
(* after the other to a path below LocalDir or below RemoteDir.  hist.path  *)
(* is the chain of paths: the input, its counterpart, and the counterpart   *)
(* of that.                                                                 *)

MaxDepth == 3

\* the paths of at most MaxDepth names below root, as WalkDir, os.ReadDir
\* and fsnotify build them: filepath.Join(dir, name)
RECURSIVE PathsBelow(_, _)
PathsBelow(root, d) ==
    IF d = 0 THEN {root}
    ELSE {root} \cup {Join(q, <<n>>) : q \in PathsBelow(root, d - 1), n \in Names}

InitPath ==
    /\ variant = "sftp"
    /\ Direction \in {LocalToRemote, RemoteToLocal}
    /\ localFS = Tree({<<LocalDir, DirEntry>>})
    /\ remoteFS = Tree({<<RemoteDir, DirEntry>>})
    /\ fs0 = [l |-> localFS, r |-> remoteFS]
    /\ mainpc = "path"
    /\ runs = 0
    /\ syncErr = <<>>
    /\ xfers = <<>>
    /\ Tasks = <<>>
    /\ wg = 0
    /\ workers = [w \in Workers |-> IdleWorker]
    /\ mu = 0
    /\ events = <<>>
    /\ watchSet = {}
    /\ fwd = IdleFwd
    /\ poll = IdlePoll
    /\ cancelled = FALSE
    /\ waiter = IdleWaiter
    /\ \E p \in PathsBelow(IF Direction = LocalToRemote THEN LocalDir
                           ELSE RemoteDir, MaxDepth) :
           hist = [NoHist EXCEPT !.path = <<p>>]

\* the path is below LocalDir: filepath.Rel(LocalDir, p) joined to RemoteDir
ToRemote ==
    /\ mainpc = "path"
    /\ Len(hist.path) \in 1..2
    /\ (Len(hist.path) = 1) = (Direction = LocalToRemote)
    /\ hist' = [hist EXCEPT
                  !.path = Append(@, toRemotePath(hist.path[Len(hist.path)]))]
    /\ UNCHANGED <<configVars, localFS, remoteFS, mainpc, syncVars, Tasks, wg,
                   workers, mu, events, watchSet, fwd, poll, cancelled, waiter>>

\* the path is below RemoteDir: convertRemoteToLocalPath
ToLocal ==
    /\ mainpc = "path"
    /\ Len(hist.path) \in 1..2
    /\ (Len(hist.path) = 1) = (Direction = RemoteToLocal)
    /\ hist' = [hist EXCEPT
                  !.path = Append(@, convertRemoteToLocalPath(
                                         hist.path[Len(hist.path)]))]
    /\ UNCHANGED <<configVars, localFS, remoteFS, mainpc, syncVars, Tasks, wg,
                   workers, mu, events, watchSet, fwd, poll, cancelled, waiter>>

NextPath == ToRemote \/ ToLocal

SpecPath == InitPath /\ [][NextPath]_vars

(* C14: a path below LocalDir translated to its remote counterpart and back
   is the path itself, and so is a path below RemoteDir translated to its
   local counterpart and back; the counterpart lies below the other root at
   the same relative place. *)
C14_RoundTrip ==
    /\ Len(hist.path) >= 2 =>
          Len(hist.path[2]) = Len(hist.path[1])
    /\ Len(hist.path) = 3 => hist.path[3] = hist.path[1]

\* a path MaxDepth names below its root has made the round trip
C14_Witness ==
    /\ Len(hist.path) = 3
    /\ Len(hist.path[1]) = Len(LocalDir) + MaxDepth
    /\ hist.path[2] # hist.path[1]
    /\ hist.path[3] = hist.path[1]

----------------------------------------------------------------------------
(* Worker accounting in the sessions of SpecSession *)

Busy(w) == workers[w].pc \in {"handle", "copy"}

(* C16: a worker that finishes a task (its handler succeeded, returned an
   error, or no case of the switch matched) decrements the counter by
   exactly one and is back at receiving; the counter goes down in no other
   step, and no handler error ends a worker. *)
C16_WorkerAccounting ==
    /\ [][\A w \in Workers :
             (Busy(w) /\ workers'[w].pc \notin {"handle", "copy"})
                 => /\ wg' = wg - 1
                    /\ workers'[w].pc = "recv"
                    /\ hist'.handled = hist.handled + 1
                    /\ ~hist'.panicked]_vars
    /\ [][wg' < wg => \E w \in Workers : Busy(w) /\ workers'[w].pc = "recv"]_vars
    /\ [][\A w \in Workers :
             workers[w].pc \in {"recv", "handle", "copy"}
                 => workers'[w].pc \in {"recv", "handle", "copy"}]_vars

\* a handler has returned an error, and afterwards the workers have handled
\* every other task and are receiving again
C16_Witness ==
    /\ hist.xferFailed
    /\ hist.handled >= 2
    /\ hist.handled = hist.submitted
    /\ wg = 0
    /\ \A w \in Workers : workers[w].pc = "recv"

(* C17: in every state of a session the counter of the WaitGroup is not
   negative (Done never panics) and is at least the number of tasks that
   are in the Tasks channel or being handled by a worker. *)
C17_OutstandingCount ==
    /\ wg >= 0
    /\ ~hist.panicked
    /\ wg >= Len(Tasks) + Cardinality({w \in Workers : Busy(w)})

\* a task waits in the channel while a worker handles another one and the
\* producer has already counted a third
C17_Witness ==
    /\ Len(Tasks) >= 1
    /\ \E w \in Workers : Busy(w)
    /\ wg > Len(Tasks) + Cardinality({w \in Workers : Busy(w)})

----------------------------------------------------------------------------
(* SpecConn: the constructors of a session (Connect of src/sftp/sftp.go and *)
(* src/ftp/ftp.go, NewSyncSSH of src/ssh/ssh.go, NewSFTP of part_007) and   *)
(* the Close of the sessions that have one.  hist.conn is the call: its     *)
(* config argument, the server it meets (net), the connection it holds      *)
(* (open), the values it returned (session, err) and the Close calls made.  *)

MaxCloses == 2

\* return session, nil
ReturnSession(c) == [c EXCEPT !.pc = "returned", !.session = TRUE]

\* return nil, err
ReturnErr(c) == [c EXCEPT !.pc = "returned", !.err = TRUE]

\* ssh.Dial: the TCP connection and the handshake with password
sshDial(c) ==
    IF c.net.up /\ c.net.auth
    THEN [c EXCEPT !.pc = "dialed", !.open = TRUE, !.user = "config"]
    ELSE ReturnErr(c)

\* sftp.NewClient(conn); on an error the function returns without closing conn
sftpNewClient(c) ==
    IF c.net.subsys THEN ReturnSession(c) ELSE ReturnErr(c)

\* Connect of src/sftp/sftp.go: config.Username is read whether or not
\* config is nil
sftpConnect(c) ==
    IF c.pc = "dialed" THEN sftpNewClient(c)
    ELSE IF c.config = "nil" THEN [c EXCEPT !.pc = "crashed"]
    ELSE sshDial(c)

\* a Connect that hands out the session although Login failed
ftpLogin_keep(c) ==
    IF c.net.auth THEN ReturnSession(c)
    ELSE [ReturnSession(c) EXCEPT !.err = TRUE]

\* the end of Connect of src/ftp/ftp.go: Login, and conn.Close() if it failed
ftpLogin(c) ==
    IF c.net.auth THEN ReturnSession(c)
    ELSE [ReturnErr(c) EXCEPT !.open = FALSE]

\* Connect of src/ftp/ftp.go
ftpConnect(c) ==
    IF c.pc = "dialed" THEN ftpLogin(c)
    ELSE IF c.net.up
    THEN [c EXCEPT !.pc = "dialed", !.open = TRUE,
                   !.user = IF c.config = "nil" THEN "anonymous" ELSE "config"]
    ELSE ReturnErr(c)

\* NewSyncSSH with newSSHClient
NewSyncSSH(c) ==
    IF sshDial(c).pc = "dialed" THEN ReturnSession(sshDial(c)) ELSE sshDial(c)

\* NewSFTP of part_007
NewSFTP(c) == IF c.pc = "dialed" THEN sftpNewClient(c) ELSE sshDial(c)

InitConn ==
    /\ variant \in {"sftp", "ftp"}
    /\ Direction \in {LocalToRemote, RemoteToLocal}
    /\ localFS = Tree({<<LocalDir, DirEntry>>})
    /\ remoteFS = Tree({<<RemoteDir, DirEntry>>})
    /\ fs0 = [l |-> localFS, r |-> remoteFS]
    /\ mainpc = "conn"
    /\ runs = 0
    /\ syncErr = <<>>
    /\ xfers = <<>>
    /\ Tasks = <<>>
    /\ wg = 0
    /\ workers = [w \in Workers |-> IdleWorker]
    /\ mu = 0
    /\ events = <<>>
    /\ watchSet = {}
    /\ fwd = IdleFwd
    /\ poll = IdlePoll
    /\ cancelled = FALSE
    /\ waiter = IdleWaiter
    \* net is the server: reachable, accepting the credentials, starting
    \* the sftp subsystem
    /\ \E api \in {"sftp.Connect", "ftp.Connect", "NewSyncSSH", "NewSFTP"},
          config \in {"nil", "given"},
          net \in [up : BOOLEAN, auth : BOOLEAN, subsys : BOOLEAN] :
          /\ (api = "ftp.Connect") = (variant = "ftp")
          /\ api \in {"NewSyncSSH", "NewSFTP"} => config = "given"
          /\ hist = [NoHist EXCEPT !.conn =
                        [api |-> api, config |-> config, net |-> net,
                         pc |-> "call", user |-> "none", open |-> FALSE,
                         session |-> FALSE, err |-> FALSE, closes |-> 0,
                         closeErr |-> FALSE]]

\* the constructor runs up to its next call of the network or to its return
ConnectStep ==
    /\ mainpc = "conn"
    /\ hist.conn.pc \in {"call", "dialed"}
    /\ hist' = [hist EXCEPT !.conn =
                  CASE @.api = "sftp.Connect" -> sftpConnect(@)
                    [] @.api = "ftp.Connect" -> ftpConnect(@)
                    [] @.api = "NewSyncSSH" -> NewSyncSSH(@)
                    [] @.api = "NewSFTP" -> NewSFTP(@)]
    /\ UNCHANGED <<configVars, localFS, remoteFS, mainpc, syncVars, Tasks, wg,
                   workers, mu, events, watchSet, fwd, poll, cancelled, waiter>>

\* SyncSSH.Close and SFTP.Close of part_007: Lock, cancel(), Client.Close(),
\* Unlock.  Client.Close() closes an open client with or without an error;
\* closing the closed ssh.Client closes its net.Conn again, which is an
\* error; closing the closed sftp.Client again may fail or not
Close ==
    /\ mainpc = "conn"
    /\ hist.conn.pc = "returned"
    /\ hist.conn.session
    /\ hist.conn.api \in {"NewSyncSSH", "NewSFTP"}
    /\ hist.conn.closes < MaxCloses
    /\ mu = 0
    /\ cancelled' = TRUE
    /\ \E e \in IF ~hist.conn.open /\ hist.conn.api = "NewSyncSSH"
                THEN {TRUE} ELSE {FALSE, TRUE} :
          hist' = [hist EXCEPT !.conn.open = FALSE, !.conn.closes = @ + 1,
                               !.conn.closeErr = e]
    /\ UNCHANGED <<configVars, localFS, remoteFS, mainpc, syncVars, Tasks, wg,
                   workers, mu, events, watchSet, fwd, poll, waiter>>

NextConn == ConnectStep \/ Close

SpecConn == InitConn /\ [][NextConn]_vars

(* C18: a constructor that has returned has returned either a session and
   no error or no session and an error; when the dial or the authentication
   failed it is the error, and no connection is left open. *)
C18_SessionOrError ==
    (mainpc = "conn" /\ hist.conn.pc = "returned") =>
        /\ hist.conn.session = ~hist.conn.err
        /\ ~(hist.conn.net.up /\ hist.conn.net.auth) =>
              (~hist.conn.session /\ hist.conn.err /\ ~hist.conn.open)

\* the server refused the credentials after the connection was made, and
\* Connect returned the error
C18_Witness ==
    /\ mainpc = "conn" /\ hist.conn.pc = "returned"
    /\ hist.conn.api = "ftp.Connect"
    /\ hist.conn.net.up /\ ~hist.conn.net.auth
    /\ hist.conn.user # "none"
    /\ hist.conn.err /\ ~hist.conn.session

(* C19: Connect called with a nil config never crashes: it logs in as
   anonymous and returns a session or an error. *)
C19_NilConfigAnonymous ==
    (mainpc = "conn" /\ hist.conn.config = "nil") =>
        /\ hist.conn.pc # "crashed"
        /\ (hist.conn.pc = "returned" /\ hist.conn.session)
               => hist.conn.user = "anonymous"

(* C20: a second Close leaves the session as the first one left it
   (context cancelled, client closed) and returns no error. *)
C20_CloseIdempotent ==
    (mainpc = "conn" /\ hist.conn.closes >= 2) =>
        /\ cancelled /\ ~hist.conn.open /\ mu = 0
        /\ ~hist.conn.closeErr

----------------------------------------------------------------------------
(* The order of WatchDirectory, in the sessions of SpecSession *)

\* the change observer runs: the forwarding goroutine, a watch, or the poll
\* loop
Observing == fwd.pc # "off" \/ poll.pc # "off" \/ watchSet # {} \/ events # <<>>

(* C21: WatchDirectory starts the workers before initialSync, and the
   watcher or the poll loop only after initialSync has returned without an
   error; after an error of initialSync the observer is never started. *)
C21_StartOrdering ==
    /\ [](runs >= 1 => \A w \in Workers : workers[w].pc # "off")
    /\ [](Observing => (runs = 1 /\ ~syncErr[1]))
    /\ []((runs >= 1 /\ syncErr[1]) => (mainpc = "fatal" /\ ~Observing))
    /\ [][Observing => Observing']_vars

\* the observer runs after a successful initialSync and a task was handled
C21_Witness ==
    /\ Observing
    /\ runs = 1 /\ ~syncErr[1]
    /\ hist.handled >= 1

----------------------------------------------------------------------------
(* SpecPipe: the pipeline of an SFTP session: the forwarding goroutine      *)
(* (LocalToRemote) or the poll loop (RemoteToLocal) producing, the Tasks    *)
(* channel, the workers consuming.                                          *)

InitPipe == Init \/ (InitPoll /\ variant = "sftp")

NextPipe ==
    \/ Next
    \/ SetupPoll
    \/ PollList
    \/ PollAdd
    \/ PollSend
    \/ PollEnd
    \/ \E q \in RemoteLive : RemoteCreate(q, MaxTime)
    \/ \E q \in RemoteLive : RemoteRemove(q)
    \/ \E w \in Workers : Download(w)
    \/ \E w \in Workers : RemoveLocal(w)

\* a step of the worker w
WorkerMove(w) ==
    \/ WorkerRecv(w)
    \/ UploadOpen(w)
    \/ UploadCopy(w)
    \/ RemoveRemote(w)
    \/ Download(w)
    \/ RemoveLocal(w)

\* a step of the forwarding goroutine, of the poll loop or of a worker
EngineStep ==
    FwdRecv \/ FwdSend \/ PollAdd \/ PollSend \/ \E w \in Workers : WorkerMove(w)

\* the Go scheduler runs every goroutine that can take a step
FairSpecPipe ==
    /\ InitPipe /\ [][NextPipe]_vars
    /\ \A w \in Workers : WF_vars(WorkerMove(w))

\* an event, a task or a send is waiting
Pending ==
    \/ events # <<>> /\ fwd.pc # "off"
    \/ fwd.pc = "send" \/ poll.pc = "send"
    \/ Tasks # <<>>
    \/ \E w \in Workers : Busy(w)

\* a producer is blocked in its send on the full channel
Blocked == (fwd.pc = "send" \/ poll.pc = "send") /\ Len(Tasks) = PoolCap

(* C22: while the process lives, a state in which an event, a task or a
   send is waiting is no deadlock: a step of the pipeline is possible; the
   session mutex is only ever held by a worker inside uploadFile, never by a
   producer; and a producer blocked on the full channel is eventually
   unblocked by a worker. *)
C22_NoDeadlock ==
    /\ []((Alive /\ Pending) => ENABLED EngineStep)
    /\ [](mu # 0 => (mu \in Workers /\ workers[mu].pc = "copy"))
    /\ (Blocked ~> (Len(Tasks) < PoolCap \/ ~Alive))

\* a producer waits to send on the full channel, one more task counted
C22_Witness ==
    /\ Blocked
    /\ Alive
    /\ wg = PoolCap + 1

----------------------------------------------------------------------------
(* SpecStop: the SFTP session of part_007: WatchDirectory starts one        *)
(* goroutine `go sftp.uploadFile(...)` per Write or Create event, and Close *)
(* is called while they run.  hist.stop.up[g] is the position of the g-th   *)
(* upload goroutine, mu the holder of sftp.mutex (0: free), hist.stop.closed*)
(* whether Client.Close() was called.                                       *)

Uploads == 1..MaxTasks

InitStop ==
    /\ variant = "sftp"
    /\ Direction = LocalToRemote
    /\ localFS = Tree({<<LocalDir, DirEntry>>,
                       <<Append(LocalDir, "a"), File("X", 0)>>})
    /\ remoteFS \in {Tree({<<RemoteDir, DirEntry>>}), Tree({})}
    /\ fs0 = [l |-> localFS, r |-> remoteFS]
    /\ mainpc = "stop"
    /\ runs = 0
    /\ syncErr = <<>>
    /\ xfers = <<>>
    /\ Tasks = <<>>
    /\ wg = 0
    /\ workers = [w \in Workers |-> IdleWorker]
    /\ mu = 0
    /\ events = <<>>
    /\ watchSet = {LocalDir}
    /\ fwd = IdleFwd
    /\ poll = IdlePoll
    /\ cancelled = FALSE
    /\ waiter = IdleWaiter
    /\ hist = [NoHist EXCEPT !.stop.up = [g \in Uploads |-> "off"]]

stopRest == <<configVars, localFS, mainpc, syncVars, Tasks, wg, workers,
              events, watchSet, fwd, poll, waiter>>

\* the forwarding goroutine takes a Write or Create event and runs
\* `go sftp.uploadFile(event.Name, remotePath)`; once ctx is done the select
\* may take that case and return
SpawnUpload(g) ==
    /\ mainpc = "stop"
    /\ hist.stop.up[g] = "off"
    /\ \A h \in Uploads : h < g => hist.stop.up[h] # "off"
    /\ hist' = [hist EXCEPT !.stop.up[g] = "lock"]
    /\ UNCHANGED <<stopRest, remoteFS, mu, cancelled>>

\* uploadFile: sftp.mutex.Lock()
UploadLock(g) ==
    /\ mainpc = "stop"
    /\ hist.stop.up[g] = "lock"
    /\ mu = 0
    /\ mu' = g
    /\ hist' = [hist EXCEPT !.stop.up[g] = "copy"]
    /\ UNCHANGED <<stopRest, remoteFS, cancelled>>

\* uploadFile from os.Open to its return: Client.Create and io.Copy fail on
\* a closed client or a missing directory; the deferred Unlock
UploadRun(g) ==
    /\ mainpc = "stop"
    /\ hist.stop.up[g] = "copy"
    /\ mu' = 0
    /\ LET dst == Join(RemoteDir, <<"a">>)
       IN  IF hist.stop.closed \/ ~CanCreate(remoteFS, dst)
           THEN /\ remoteFS' = remoteFS
                /\ hist' = [hist EXCEPT !.stop.up[g] = "failed"]
           ELSE /\ remoteFS' = Put(remoteFS, dst, File("X", MaxTime))
                /\ hist' = [hist EXCEPT !.stop.up[g] = "done"]
    /\ UNCHANGED <<stopRest, cancelled>>

\* somebody calls Close: it waits for sftp.mutex
CloseCall ==
    /\ mainpc = "stop"
    /\ hist.stop.closer = "off"
    /\ hist' = [hist EXCEPT !.stop.closer = "lock"]
    /\ UNCHANGED <<stopRest, remoteFS, mu, cancelled>>

\* Close with the mutex: sftp.cancel(), sftp.Client.Close(), Unlock
CloseRun ==
    /\ mainpc = "stop"
    /\ hist.stop.closer = "lock"
    /\ mu = 0
    /\ cancelled' = TRUE
    /\ hist' = [hist EXCEPT !.stop.closer = "returned", !.stop.closed = TRUE]
    /\ UNCHANGED <<stopRest, remoteFS, mu>>

NextStop ==
    \/ \E g \in Uploads : SpawnUpload(g)
    \/ \E g \in Uploads : UploadLock(g)
    \/ \E g \in Uploads : UploadRun(g)
    \/ CloseCall
    \/ CloseRun

SpecStop == InitStop /\ [][NextStop]_vars

(* C23: Close does not abort a transfer in progress, and at the instant it
   closes the connection no upload started before is executing or still
   waiting to execute. *)
C23_CloseAfterTransfers ==
    [][(hist'.stop.closed /\ ~hist.stop.closed) =>
          \A g \in Uploads : hist.stop.up[g] \notin {"lock", "copy"}]_vars

(* C25: every task sent on Tasks is received by exactly one worker and
   handled exactly once: a receive takes the head of the channel out of it
   and changes one worker only, the tasks sent are the tasks handled, being
   handled or still in the channel, and while the process lives every task
   sent is eventually handled. *)
C25_ExactlyOnce ==
    /\ [](hist.submitted =
             hist.handled + Len(Tasks) + Cardinality({w \in Workers : Busy(w)}))
    /\ [][\A w \in Workers :
             (workers[w].pc = "recv" /\ workers'[w].pc # "recv")
                 => /\ Tasks # <<>>
                    /\ workers'[w].task = Head(Tasks)
                    /\ Tasks' = Tail(Tasks)
                    /\ \A v \in Workers \ {w} : workers'[v] = workers[v]]_vars
    /\ ((Tasks # <<>> \/ \E w \in Workers : Busy(w))
           ~> (hist.handled = hist.submitted \/ ~Alive))

\* the two workers handle two different tasks at the same time
C25_Witness ==
    /\ \A w \in Workers : Busy(w)
    /\ \A v, w \in Workers : v # w => workers[v].task # workers[w].task
    /\ hist.handled >= 1

----------------------------------------------------------------------------
(* SpecDirs: the LocalToRemote session of Spec in which the user also makes *)
(* a directory below LocalDir and a file in it.                             *)

NewDir == Append(LocalDir, "d")

\* the user makes the directory d; fsnotify reports Create for it
LocalMkdir(d) ==
    /\ UserMay
    /\ IsDir(localFS, Parent(d)) /\ ~Exists(localFS, d)
    /\ localFS' = Put(localFS, d, DirEntry)
    /\ events' = Notify("Create", d)
    /\ hist' = [hist EXCEPT !.changes = @ + 1]
    /\ UNCHANGED <<configVars, remoteFS, mainpc, syncVars, Tasks, wg, workers,
                   mu, watchSet, fwd, poll, cancelled, waiter>>

NextDirs ==
    \/ Next
    \/ LocalMkdir(NewDir)
    \/ \E c \in Contents : LocalCreate(Append(NewDir, "a"), c)

SpecDirs == Init /\ [][NextDirs]_vars

(* C26: once the Create event of a new local directory has been received
   and handled, the directory is in the watch set, so that events of files
   in it are observed; and no directory ever leaves the watch set. *)
C26_WatchSetGrows ==
    /\ []((/\ \E i \in 1..Len(hist.fwdIn) :
                 hist.fwdIn[i] = Task("Create", NewDir)
           /\ hist.handled = hist.submitted /\ fwd.pc = "recv"
           /\ IsDir(localFS, NewDir))
             => NewDir \in watchSet)
    /\ [][watchSet \subseteq watchSet']_vars

----------------------------------------------------------------------------
(* SpecSsh: the periodic sync of src/ssh/ssh.go: StartSync starts the       *)
(* goroutine sync(uploadDirectory, LocalPath, RemotePath), and Close is     *)
(* called while it runs.  hist.ssh.pc is the position of the goroutine,     *)
(* hist.ssh.interval the configured SyncInterval, hist.ssh.passes the calls *)
(* of syncFunc, hist.ssh.late those that took the mutex after Close had     *)
(* cancelled the context, mu the holder of s.mutex (0: free).               *)

\* the values of Config.SyncInterval: the zero value and a positive one
SyncIntervals == {0, 1}

InitSsh ==
    /\ variant = "sftp"
    /\ Direction = LocalToRemote
    /\ localFS \in {Tree({<<LocalDir, DirEntry>>} \cup A) :
                      A \in FileOpts(Append(LocalDir, "a"), Contents, {0})}
    /\ remoteFS \in {Tree({<<RemoteDir, DirEntry>>}), Tree({})}
    /\ fs0 = [l |-> localFS, r |-> remoteFS]
    /\ mainpc = "ssh"
    /\ runs = 0
    /\ syncErr = <<>>
    /\ xfers = <<>>
    /\ Tasks = <<>>
    /\ wg = 0
    /\ workers = [w \in Workers |-> IdleWorker]
    /\ mu = 0
    /\ events = <<>>
    /\ watchSet = {}
    /\ fwd = IdleFwd
    /\ poll = IdlePoll
    /\ cancelled = FALSE
    /\ waiter = IdleWaiter
    /\ \E d \in SyncIntervals : hist = [NoHist EXCEPT !.ssh.interval = d]

sshRest == <<configVars, localFS, mainpc, syncVars, Tasks, wg, workers,
             events, watchSet, fwd, poll, waiter>>

\* StartSync: go s.sync(s.uploadDirectory, s.LocalPath, s.RemotePath)
StartSync ==
    /\ mainpc = "ssh"
    /\ hist.ssh.pc = "off"
    /\ hist' = [hist EXCEPT !.ssh.pc = "select"]
    /\ UNCHANGED <<sshRest, remoteFS, mu, cancelled>>

\* the select of sync is reached with a fresh time.After(s.SyncInterval):
\* the timer has expired already when the interval is zero, ctx.Done() is
\* ready once the context is cancelled; select takes any ready case and
\* blocks when none is
SyncSelect ==
    /\ mainpc = "ssh"
    /\ hist.ssh.pc = "select"
    /\ \/ /\ cancelled
          /\ hist' = [hist EXCEPT !.ssh.pc = "exited"]
       \/ /\ hist.ssh.interval = 0
          /\ hist.ssh.passes < MaxPolls
          /\ hist' = [hist EXCEPT
                        !.ssh.pc = "lock",
                        !.ssh.passes = @ + 1]
       \/ /\ ~cancelled /\ hist.ssh.interval > 0
          /\ hist' = [hist EXCEPT !.ssh.pc = "wait"]
    /\ UNCHANGED <<sshRest, remoteFS, mu, cancelled>>

\* the blocked select is woken by the case that becomes ready first: the
\* timer, unless the context was cancelled before it expired
SyncWake ==
    /\ mainpc = "ssh"
    /\ hist.ssh.pc = "wait"
    /\ IF cancelled
       THEN hist' = [hist EXCEPT !.ssh.pc = "exited"]
       ELSE /\ hist.ssh.passes < MaxPolls
            /\ hist' = [hist EXCEPT
                          !.ssh.pc = "lock",
                          !.ssh.passes = @ + 1]
    /\ UNCHANGED <<sshRest, remoteFS, mu, cancelled>>

\* uploadDirectory: s.mutex.Lock()
SyncLock ==
    /\ mainpc = "ssh"
    /\ hist.ssh.pc = "lock"
    /\ mu = 0
    /\ mu' = 1
    /\ hist' = [hist EXCEPT !.ssh.pc = "pass",
                            !.ssh.late = IF cancelled THEN @ + 1 ELSE @]
    /\ UNCHANGED <<sshRest, remoteFS, cancelled>>

\* uploadDirectory with the mutex: filepath.Walk uploads every file to
\* filepath.Join(remoteDir, rel) (Client.NewSession fails on a closed
\* client); the deferred Unlock; sync logs an error and loops
SyncPass ==
    /\ mainpc = "ssh"
    /\ hist.ssh.pc = "pass"
    /\ mu' = 0
    /\ LET src == Append(LocalDir, "a")
           dst == Join(RemoteDir, Rel(LocalDir, src))
       IN  remoteFS' = IF /\ ~hist.ssh.closed
                          /\ IsFile(localFS, src)
                          /\ CanCreate(remoteFS, dst)
                       THEN Put(remoteFS, dst, localFS[src])
                       ELSE remoteFS
    /\ hist' = [hist EXCEPT !.ssh.pc = "select"]
    /\ UNCHANGED <<sshRest, cancelled>>

\* somebody calls SyncSSH.Close: it waits for s.mutex
SshCloseCall ==
    /\ mainpc = "ssh"
    /\ hist.ssh.pc # "off"
    /\ hist.ssh.closer = "off"
    /\ hist' = [hist EXCEPT !.ssh.closer = "lock"]
    /\ UNCHANGED <<sshRest, remoteFS, mu, cancelled>>

\* SyncSSH.Close with the mutex: s.cancel(), s.Client.Close(), Unlock
SshClose ==
    /\ mainpc = "ssh"
    /\ hist.ssh.closer = "lock"
    /\ mu = 0
    /\ cancelled' = TRUE
    /\ hist' = [hist EXCEPT !.ssh.closer = "returned", !.ssh.closed = TRUE]
    /\ UNCHANGED <<sshRest, remoteFS, mu>>

NextSsh ==
    \/ StartSync
    \/ SyncSelect
    \/ SyncWake
    \/ SyncLock
    \/ SyncPass
    \/ SshCloseCall
    \/ SshClose

SpecSsh == InitSsh /\ [][NextSsh]_vars

(* C31: after Close has cancelled the context of a session whose periodic
   sync runs, the sync goroutine runs at most one further pass, and it
   exits only on the cancellation. *)
C31_PeriodicSyncShutdown ==
    /\ hist.ssh.late <= 1
    /\ hist.ssh.pc = "exited" => cancelled

----------------------------------------------------------------------------
(* SpecGap: the LocalToRemote session of Spec with a user who also creates *)
(* a file after initialSync has returned and before AddDirectoriesToWatcher*)
(* has registered the directories.                                         *)

\* the user creates p between s.initialSync() and watcher.Add: no directory
\* is watched yet, so fsnotify queues nothing
EarlyCreate(p, c) ==
    /\ mainpc = "watcher"
    /\ hist.changes < MaxChanges
    /\ CanCreate(localFS, p) /\ ~Exists(localFS, p)
    /\ localFS' = Put(localFS, p, File(c, MaxTime))
    /\ events' = Notify("Create", p)
    /\ hist' = [hist EXCEPT !.changes = @ + 1, !.life[p] = "early"]
    /\ UNCHANGED <<configVars, remoteFS, mainpc, syncVars, Tasks, wg, workers,
                   mu, watchSet, fwd, poll, cancelled, waiter>>

NextGap ==
    \/ Next
    \/ \E c \in Contents : EarlyCreate(Append(LocalDir, "a"), c)

SpecGap == Init /\ [][NextGap]_vars

(* C34: a file created in a local directory after initialSync has listed it
   and before the watcher has registered it is still uploaded: once the
   watch runs and nothing is pending, it exists on the remote side. *)
C34_NoChangeMissed ==
    (Quiescent /\ ~hist.xferFailed) =>
        \A p \in LivePaths :
            (hist.life[p] = "early" /\ IsFile(localFS, p)) =>
                IsFile(remoteFS, toRemotePath(p))

----------------------------------------------------------------------------
(* SpecTp: the textproto FTP engine of src/ftp/ftp.go in its two versions:  *)
(* the one whose initialSync takes the session lock itself (ftp.go:772,     *)
(* part_009; hist.tp.outer) and the one whose initialSync does not          *)
(* (ftp.go:243).  Both call the same uploadFile and downloadFile, which     *)
(* lock the session.  The local directory holds files only.  hist.tp.pc is  *)
(* the position of the goroutine that runs initialSync, hist.tp.queue the   *)
(* entries it still has to visit, hist.tp.max the configured MaxRetries,    *)
(* hist.tp.xfer the outcome of the last uploadFile or downloadFile, mu the  *)
(* holder of the embedded sync.Mutex (0: free).                             *)

\* the values of ExtraConfig.MaxRetries: the zero value and a positive one
RetryLimits == {0, MaxRetries}

\* for i := 0; i < MaxRetries; i++ { ...; if err != nil { if i ==
\* MaxRetries-1 { return err }; continue }; break }; return nil: fails is
\* the number of attempts that fail before one completes
RECURSIVE tpRetry(_, _, _)
tpRetry(i, fails, max) ==
    IF i >= max THEN [ok |-> FALSE, err |-> FALSE, tries |-> i]
    ELSE IF i + 1 > fails THEN [ok |-> TRUE, err |-> FALSE, tries |-> i + 1]
    ELSE IF i = max - 1 THEN [ok |-> FALSE, err |-> TRUE, tries |-> i + 1]
    ELSE tpRetry(i + 1, fails, max)

\* uploadFile(filePath) between Lock and Unlock: os.Open, then the loop of
\* PASV, STOR RemoteDir/Base(filePath), io.Copy
tpUploadFile(st, flaky, filePath, max) ==
    LET dst == Append(RemoteDir, filePath[Len(filePath)])
        r == tpRetry(0, IF IsFile(st.l, filePath) /\ CanCreate(st.r, dst)
                        THEN flaky ELSE max, max)
    IN  IF ~Exists(st.l, filePath)
        THEN [st |-> Fail(st), ok |-> FALSE, tries |-> 0]
        ELSE [st |-> [st EXCEPT !.r = IF r.ok
                                      THEN Put(st.r, dst,
                                               File(st.l[filePath].content,
                                                    MaxTime))
                                      ELSE st.r,
                                !.err = r.err],
              ok |-> r.ok, tries |-> r.tries]

\* downloadFile(name) between Lock and Unlock: os.Create(LocalDir/name),
\* then the loop of PASV, RETR RemoteDir/name, io.Copy
tpDownloadFile(st, flaky, name, max) ==
    LET dst == Join(LocalDir, name)
        src == Join(RemoteDir, name)
        r == tpRetry(0, IF IsFile(st.r, src) THEN flaky ELSE max, max)
    IN  IF ~CanCreate(st.l, dst)
        THEN [st |-> Fail(st), ok |-> FALSE, tries |-> 0]
        ELSE [st |-> [st EXCEPT !.l = Put(st.l, dst,
                                          IF r.ok
                                          THEN File(st.r[src].content, MaxTime)
                                          ELSE File(Partial, MaxTime)),
                                !.err = r.err],
              ok |-> r.ok, tries |-> r.tries]

InitTp ==
    /\ variant = "ftp"
    /\ Direction \in {LocalToRemote, RemoteToLocal}
    /\ localFS \in {Tree({<<LocalDir, DirEntry>>} \cup A \cup V) :
                      A \in FileOpts(Append(LocalDir, "a"), {"X"}, {0}),
                      V \in FileOpts(Append(LocalDir, "v.swp"), {"X"}, {0})}
    /\ remoteFS \in {Tree({<<RemoteDir, DirEntry>>} \cup A) :
                       A \in FileOpts(Append(RemoteDir, "a"), {"Z"}, {0})}
    /\ fs0 = [l |-> localFS, r |-> remoteFS]
    /\ mainpc = "tp"
    /\ runs = 0
    /\ syncErr = <<>>
    /\ xfers = <<>>
    /\ Tasks = <<>>
    /\ wg = 0
    /\ workers = [w \in Workers |-> IdleWorker]
    /\ mu = 0
    /\ events = <<>>
    /\ watchSet = {}
    /\ fwd = IdleFwd
    /\ poll = IdlePoll
    /\ cancelled = FALSE
    /\ waiter = IdleWaiter
    /\ \E o \in BOOLEAN, k \in RetryLimits :
         hist = [NoHist EXCEPT !.tp.outer = o, !.tp.max = k,
                               !.tp.pc = "call"]

tpRest == <<configVars, mainpc, syncVars, Tasks, wg, workers, events,
            watchSet, fwd, poll, cancelled, waiter>>

\* initialSync is called: f.Lock() in the version that has it
TpSyncLock ==
    /\ mainpc = "tp"
    /\ hist.tp.pc = "call"
    /\ IF hist.tp.outer
       THEN mu = 0 /\ mu' = 1
       ELSE mu' = mu
    /\ hist' = [hist EXCEPT !.tp.pc = "list"]
    /\ UNCHANGED <<tpRest, localFS, remoteFS>>

\* the listing: os.ReadDir(LocalDir) in LocalToRemote; in RemoteToLocal
\* f.List(), which locks the session, in the version with the lock and a bare
\* NLST, after which syncDir returns nil, in the other
TpSyncList ==
    /\ mainpc = "tp"
    /\ hist.tp.pc = "list"
    /\ IF Direction = LocalToRemote
       THEN hist' = [hist EXCEPT
                       !.tp.pc = "next",
                       !.tp.queue = Listing(localFS, LocalDir, NameSeq)]
       ELSE /\ mu = 0
            /\ hist' = [hist EXCEPT !.tp.pc = "next", !.tp.queue = <<>>]
    /\ UNCHANGED <<tpRest, localFS, remoteFS, mu>>

\* the loop over the entries: the next entry is handed to uploadFile (the
\* version without the lock first asks f.Stat and skips the entry when that
\* returns no error); after the last one initialSync unlocks and returns nil
TpSyncNext ==
    /\ mainpc = "tp"
    /\ hist.tp.pc = "next"
    /\ IF hist.tp.queue = <<>>
       THEN /\ mu' = 0
            /\ hist' = [hist EXCEPT !.tp.pc = "returned"]
       ELSE /\ mu' = mu
            /\ \/ hist' = [hist EXCEPT !.tp.pc = "upload"]
               \/ /\ ~hist.tp.outer
                  /\ hist' = [hist EXCEPT !.tp.queue = Tail(@)]
    /\ UNCHANGED <<tpRest, localFS, remoteFS>>

\* uploadFile called by initialSync: f.Lock()
TpUploadLock ==
    /\ mainpc = "tp"
    /\ hist.tp.pc = "upload"
    /\ mu = 0
    /\ mu' = 1
    /\ hist' = [hist EXCEPT !.tp.pc = "copy"]
    /\ UNCHANGED <<tpRest, localFS, remoteFS>>

\* uploadFile with the lock, its deferred Unlock, and the error check of
\* the caller
TpUploadRun ==
    /\ mainpc = "tp"
    /\ hist.tp.pc = "copy"
    /\ \E flaky \in 0..MaxRetries :
         LET u == tpUploadFile(SyncState(localFS, remoteFS), flaky,
                               Append(LocalDir, Head(hist.tp.queue)),
                               hist.tp.max)
         IN  /\ remoteFS' = u.st.r
             /\ hist' = [hist EXCEPT
                           !.tp.pc = IF u.st.err THEN "returned" ELSE "next",
                           !.tp.err = u.st.err,
                           !.tp.queue = Tail(@),
                           !.tp.xfer = [called |-> TRUE, err |-> u.st.err,
                                        ok |-> u.ok, tries |-> u.tries]]
    /\ mu' = 0
    /\ UNCHANGED <<tpRest, localFS>>

\* after initialSync has returned nil a worker handles a task for the file
\* a: uploadFile or downloadFile from Lock to Unlock
TpWorkerXfer ==
    /\ mainpc = "tp"
    /\ hist.tp.pc = "returned" /\ ~hist.tp.err
    /\ hist.tp.tasks < MaxTasks
    /\ mu = 0
    /\ \E flaky \in 0..MaxRetries :
         LET st0 == SyncState(localFS, remoteFS)
             u == IF Direction = LocalToRemote
                  THEN tpUploadFile(st0, flaky, Append(LocalDir, "a"),
                                    hist.tp.max)
                  ELSE tpDownloadFile(st0, flaky, <<"a">>, hist.tp.max)
         IN  /\ localFS' = u.st.l
             /\ remoteFS' = u.st.r
             /\ hist' = [hist EXCEPT
                           !.tp.tasks = @ + 1,
                           !.tp.xfer = [called |-> TRUE, err |-> u.st.err,
                                        ok |-> u.ok, tries |-> u.tries]]
    /\ UNCHANGED <<tpRest, mu>>

NextTp ==
    \/ TpSyncLock
    \/ TpSyncList
    \/ TpSyncNext
    \/ TpUploadLock
    \/ TpUploadRun
    \/ TpWorkerXfer

SpecTp == InitTp /\ [][NextTp]_vars

FairSpecTp == SpecTp /\ WF_vars(NextTp)

(* C35: in the version whose initialSync takes the session lock, an
   initialSync that finds an entry in the directory eventually returns. *)
C35_InitialSyncReturns ==
    (hist.tp.outer /\ hist.tp.pc = "upload") ~> (hist.tp.pc = "returned")

(* C40: uploadFile and downloadFile return nil only if one transfer attempt
   completed without error, whatever MaxRetries is. *)
C40_NilOnlyAfterTransfer ==
    (hist.tp.xfer.called /\ ~hist.tp.xfer.err) => hist.tp.xfer.ok

----------------------------------------------------------------------------
(* SpecEvents: the LocalToRemote session of the FTP WatchDirectory of       *)
(* src/ftp/ftp.go:297-352, whose forwarding goroutine, after it has sent    *)
(* the task, also sends the event on the channel                            *)
(* `events := make(chan fsnotify.Event)`.  fwd.pc = "publish" is the        *)
(* goroutine at that send; this version starts no goroutine that receives   *)
(* from the channel.                                                        *)

InitEvents ==
    /\ variant = "ftp"
    /\ Direction = LocalToRemote
    /\ localFS \in {Tree({<<LocalDir, DirEntry>>}),
                    Tree({<<LocalDir, DirEntry>>,
                          <<Append(LocalDir, "a"), File("X", 0)>>})}
    /\ remoteFS = Tree({<<RemoteDir, DirEntry>>})
    /\ fs0 = [l |-> localFS, r |-> remoteFS]
    /\ mainpc = "start"
    /\ runs = 0
    /\ syncErr = <<>>
    /\ xfers = <<>>
    /\ PipelineInit

\* f.Pool.Tasks <- worker.Task{EventType: event.Op, Name: event.Name}; the
\* goroutine goes on to `events <- event`
FwdSendPublish ==
    /\ Alive
    /\ fwd.pc = "send"
    /\ Len(Tasks) < PoolCap
    /\ Tasks' = Append(Tasks, fwd.task)
    /\ fwd' = [fwd EXCEPT !.pc = "publish"]
    /\ hist' = [hist EXCEPT !.submitted = @ + 1,
                            !.fwdOut = Append(@, fwd.task)]
    /\ UNCHANGED <<configVars, localFS, remoteFS, mainpc, syncVars, wg,
                   workers, mu, events, watchSet, poll, cancelled, waiter>>

EventsStep ==
    \/ FwdRecv
    \/ FwdSendPublish
    \/ \E w \in Workers : WorkerRecv(w)
    \/ \E w \in Workers : FtpUpload(w)
    \/ \E w \in Workers : FtpRemoveRemote(w)
    \/ \E w \in Workers : Ignore(w)

NextEvents ==
    \/ StartWorkers
    \/ WatchInitialSync
    \/ SetupWatcher
    \/ \E c \in Contents : LocalCreate(Append(LocalDir, "a"), c)
    \/ \E c \in Contents : LocalWrite(Append(LocalDir, "a"), c)
    \/ LocalRemove(Append(LocalDir, "a"))
    \/ EventsStep

FairSpecEvents == InitEvents /\ [][NextEvents]_vars /\ WF_vars(EventsStep)

(* C36: the forwarding goroutine forwards every watcher event: after it has
   handled one event it is eventually ready to receive the next one. *)
C36_ForwarderReady ==
    (fwd.pc = "send") ~> (fwd.pc = "recv")

----------------------------------------------------------------------------
(* SpecSubmit: the worker pool of src/worker/Readme.md: NewWorkerPool(n)    *)
(* makes an unbuffered Tasks channel, adds n to the WaitGroup and starts n  *)
(* workers; Submit sends a task; a worker runs task.Func and calls WG.Done. *)
(* workers[w].src is the function of the task the worker w runs.            *)

InitSubmit ==
    /\ variant = "sftp"
    /\ Direction = LocalToRemote
    /\ localFS = Tree({<<LocalDir, DirEntry>>})
    /\ remoteFS = Tree({<<RemoteDir, DirEntry>>})
    /\ fs0 = [l |-> localFS, r |-> remoteFS]
    /\ mainpc = "pool"
    /\ runs = 0
    /\ syncErr = <<>>
    /\ xfers = <<>>
    /\ Tasks = <<>>
    /\ \E n \in Workers :
         /\ wg = n
         /\ workers = [w \in Workers |->
                         IF w <= n THEN [IdleWorker EXCEPT !.pc = "recv"]
                         ELSE IdleWorker]
    /\ mu = 0
    /\ events = <<>>
    /\ watchSet = {}
    /\ fwd = IdleFwd
    /\ poll = IdlePoll
    /\ cancelled = FALSE
    /\ waiter = [pc |-> "submit", add |-> FALSE]
    /\ hist = NoHist

\* the functions a caller submits: one that returns nil, one that returns
\* an error
TaskFuncs == {"nil", "error"}

\* Submit: p.Tasks <- Task{Func: taskFunc} on the unbuffered channel: the
\* send completes when the worker w receives the task
Submit(w, taskFunc) ==
    /\ Alive
    /\ waiter.pc = "submit"
    /\ hist.submitted < MaxTasks
    /\ workers[w].pc = "recv"
    /\ workers' = [workers EXCEPT ![w] = [pc |-> "handle",
                                          task |-> Task("Func", <<>>),
                                          src |-> taskFunc]]
    /\ hist' = [hist EXCEPT !.submitted = @ + 1]
    /\ UNCHANGED <<configVars, localFS, remoteFS, mainpc, syncVars, Tasks, wg,
                   mu, events, watchSet, fwd, poll, cancelled, waiter>>

\* worker: err := task.Func(); the error is logged; p.WG.Done()
RunFunc(w) ==
    /\ Alive
    /\ workers[w].pc = "handle"
    /\ workers[w].task.EventType = "Func"
    /\ WGDone([hist EXCEPT !.xferFailed = @ \/ workers[w].src = "error"])
    /\ workers' = BackToRecv(w)
    /\ UNCHANGED <<configVars, localFS, remoteFS, mainpc, syncVars, Tasks, mu,
                   events, watchSet, fwd, poll, cancelled, waiter>>

NextSubmit ==
    \/ \E w \in Workers, f \in TaskFuncs : Submit(w, f)
    \/ \E w \in Workers : RunFunc(w)
    \/ MainWait
    \/ WaitReturn

SpecSubmit == InitSubmit /\ [][NextSubmit]_vars

(* C37: in the pool with Submit the WaitGroup counter is never negative,
   however many tasks are submitted: no WG.Done() finds the counter at zero
   (the call that would take it below zero panics). *)
C37_CounterNeverNegative ==
    wg >= 0 /\ ~hist.panicked

-----------------------------------------------------------------------------
(* SpecFlat: the SFTP WatchDirectory(localPath, remotePath) that registers  *)
(* every directory under localPath and runs `go sftp.uploadFile(event.Name, *)
(* remotePath)` for each Write or Create event.  hist.flat.pend holds the   *)
(* upload goroutines that wait for sftp.mutex, hist.flat.run the local path *)
(* of the one that holds it, hist.flat.sent the <<local, remote>> pairs of  *)
(* the uploads that completed.                                              *)

\* the local files the user writes: one in localPath, one in a subdirectory
FlatFiles == {Append(LocalDir, "a"), Append(Append(LocalDir, "s"), "a")}

\* filepath.Base
Base(path) == IF path = <<>> THEN <<>> ELSE <<path[Len(path)]>>

\* the remote path uploadFile creates
flatRemotePath(localPath, remotePath) == Join(remotePath, Base(localPath))

InitFlat ==
    /\ variant = "sftp"
    /\ Direction = LocalToRemote
    /\ localFS = Tree({<<LocalDir, DirEntry>>,
                       <<Append(LocalDir, "s"), DirEntry>>})
    /\ remoteFS \in {Tree({<<RemoteDir, DirEntry>>}), Tree({})}
    /\ fs0 = [l |-> localFS, r |-> remoteFS]
    /\ mainpc = "flat-walk"
    /\ runs = 0
    /\ syncErr = <<>>
    /\ xfers = <<>>
    /\ Tasks = <<>>
    /\ wg = 0
    /\ workers = [w \in Workers |-> IdleWorker]
    /\ mu = 0
    /\ events = <<>>
    /\ watchSet = {}
    /\ fwd = IdleFwd
    /\ poll = IdlePoll
    /\ cancelled = FALSE
    /\ waiter = IdleWaiter
    /\ hist = NoHist

flatRest == <<configVars, mainpc, syncVars, Tasks, wg, workers, watchSet,
              fwd, poll, cancelled, waiter>>

\* WatchDirectory: filepath.Walk(localPath) adds every directory to the
\* watcher, then the call blocks on ctx.Done
FlatWalk ==
    /\ mainpc = "flat-walk"
    /\ watchSet' = {d \in DOMAIN localFS :
                      /\ IsDir(localFS, d)
                      /\ Len(d) >= Len(LocalDir)
                      /\ SubSeq(d, 1, Len(LocalDir)) = LocalDir}
    /\ mainpc' = "flat"
    /\ UNCHANGED <<configVars, localFS, remoteFS, syncVars, Tasks, wg,
                   workers, mu, events, fwd, poll, cancelled, waiter, hist>>

\* the user creates or rewrites a file of the watched tree
FlatWrite(p, c) ==
    /\ mainpc = "flat"
    /\ hist.changes < MaxChanges
    /\ ~IsDir(localFS, p) /\ IsDir(localFS, Parent(p))
    /\ localFS' = Put(localFS, p, File(c, MaxTime))
    /\ events' = Notify(IF Exists(localFS, p) THEN "Write" ELSE "Create", p)
    /\ hist' = [hist EXCEPT !.changes = @ + 1]
    /\ UNCHANGED <<flatRest, remoteFS, mu>>

\* the forwarding goroutine: case event := <-watcher.Events with a Write or
\* Create bit: go sftp.uploadFile(event.Name, remotePath)
FlatForward ==
    /\ mainpc = "flat"
    /\ events # <<>>
    /\ events' = Tail(events)
    /\ hist' = [hist EXCEPT !.flat.pend =
                    IF Head(events).EventType \in {"Write", "Create"}
                    THEN Append(@, Head(events).Name) ELSE @]
    /\ UNCHANGED <<flatRest, localFS, remoteFS, mu>>

\* uploadFile: sftp.mutex.Lock(), by any of the waiting goroutines
FlatUploadLock(i) ==
    /\ mainpc = "flat"
    /\ mu = 0
    /\ mu' = 1
    /\ hist' = [hist EXCEPT
                  !.flat.run = hist.flat.pend[i],
                  !.flat.pend = [k \in 1..(Len(@) - 1) |->
                                    IF k < i THEN @[k] ELSE @[k + 1]]]
    /\ UNCHANGED <<flatRest, localFS, remoteFS, events>>

\* uploadFile from os.Open to its return: Client.Create of
\* Join(remotePath, Base(localPath)), io.Copy, the deferred Unlock
FlatUploadRun ==
    /\ mainpc = "flat"
    /\ mu = 1 /\ hist.flat.run # <<>>
    /\ mu' = 0
    /\ LET src == hist.flat.run
           dst == flatRemotePath(src, RemoteDir)
       IN  IF ~IsFile(localFS, src) \/ ~CanCreate(remoteFS, dst)
           THEN /\ remoteFS' = remoteFS
                /\ hist' = [hist EXCEPT !.flat.run = <<>>]
           ELSE /\ remoteFS' = Put(remoteFS, dst,
                                   File(localFS[src].content, MaxTime))
                /\ hist' = [hist EXCEPT !.flat.run = <<>>,
                                        !.flat.sent = @ \cup {<<src, dst>>}]
    /\ UNCHANGED <<flatRest, localFS, events>>

NextFlat ==
    \/ FlatWalk
    \/ \E p \in FlatFiles, c \in Contents : FlatWrite(p, c)
    \/ FlatForward
    \/ \E i \in 1..Len(hist.flat.pend) : FlatUploadLock(i)
    \/ FlatUploadRun

SpecFlat == InitFlat /\ [][NextFlat]_vars

(* C38: distinct local files are uploaded to distinct remote paths: an      *)
(* upload of one local file never writes the remote path that the upload of *)
(* a different local file wrote.                                            *)
C38_InjectivePathMapping ==
    \A x \in hist.flat.sent : \A y \in hist.flat.sent :
        x[1] # y[1] => x[2] # y[2]

====
